---- MODULE Spec2Model ----
(***************************************************************************)
(* A model of the request / pagination engine of rapidpro-python           *)
(* (src/temba_client/clients.py): the response classification of           *)
(* BaseClient._request, the rate-limit retry loop of BaseCursorClient,     *)
(* the cursor iterator and query, and the page based pager.                *)
(*                                                                         *)
(* The HTTP server is the environment: every request that the client       *)
(* issues is answered by a response drawn from a bounded set.  One step of *)
(* the model is one HTTP exchange together with all the client code that   *)
(* runs up to the next exchange (or up to the return of the call).         *)
(***************************************************************************)
EXTENDS Integers, Sequences, FiniteSets, TLC

VARIABLES
    op,       \* the client call in progress: its name and its position
    pend,     \* the HTTP request the call is about to issue
    reqs,     \* the requests issued by the current call, with their responses
    sleeps,   \* the time.sleep() durations of the current call, in order
    result,   \* the outcome of the last finished call
    acc,      \* the local `results` list of all() / _get_all()
    query,    \* the CursorQuery object
    iter,     \* the CursorIterator object
    heap,     \* the params dicts that the query and the iterator refer to
    pager,    \* the Pager object
    calls,    \* the number of calls made on the current iterator or pager
    ghost,    \* history of the current iterator or pager, read by the claims only
    args      \* the arguments of the call in progress, where its outcome depends on them

vars == <<op, pend, reqs, sleeps, result, acc, query, iter, heap, pager, calls, ghost, args>>

cursorVars == <<query, iter, heap>>

-----------------------------------------------------------------------------
(* Python values *)

\* None, for the slots that otherwise hold a string (URLs, cursors, headers)
None == "None"

\* an empty dict; a dict is a function from its keys to their values
EmptyDict == << >>

\* Python truthiness of a str-or-None
StrTruthy(s) == s # None /\ s # ""

Last(s) == s[Len(s)]

-----------------------------------------------------------------------------
(* Python values of the serialization layer, each with its type *)

PyNone == [t |-> "NoneType"]
PyBool(b) == [t |-> "bool", b |-> b]
PyInteger(i) == [t |-> "int", i |-> i]
\* a number that is no integer, by its literal
PyFloat(x) == [t |-> "float", x |-> x]
\* a string is the sequence of its pieces: "" is << >>, and an ISO-8601 string
\* is its date, 'T', its time, '.', its fraction and 'Z', as far as present
PyStr(chars) == [t |-> "str", chars |-> chars]
PyList(items) == [t |-> "list", items |-> items]
PyTuple(elems) == [t |-> "tuple", elems |-> elems]
PyDict(d) == [t |-> "dict", d |-> d]
\* a datetime with tzinfo UTC
PyDatetime(date, time, microsecond) ==
    [t |-> "datetime", date |-> date, time |-> time, microsecond |-> microsecond,
     tzinfo |-> "UTC"]
\* an instance of a TembaObject class: its class and its instance attributes
PyObject(clazz, attrs) == [t |-> "object", clazz |-> clazz, attrs |-> attrs]

\* Python truthiness
PyTruthy(value) ==
    CASE value.t = "NoneType" -> FALSE
      [] value.t = "bool" -> value.b
      [] value.t = "int" -> value.i # 0
      [] value.t = "str" -> value.chars # << >>
      [] value.t = "list" -> value.items # << >>
      [] value.t = "tuple" -> value.elems # << >>
      [] value.t = "dict" -> DOMAIN value.d # {}
      [] OTHER -> TRUE

\* the outcome of a conversion: the value returned, or the exception raised
Ok(v) == [raised |-> FALSE, exc |-> "none", value |-> v]
Fails(e) == [raised |-> TRUE, exc |-> e, value |-> PyNone]

-----------------------------------------------------------------------------
(* Bounds of the environment *)

\* the most HTTP requests a single cursor or paging walk is followed through
MaxReqs == 3

\* the most calls made on one iterator or one pager
MaxCalls == 3

-----------------------------------------------------------------------------
(* The wire: responses of the server *)

MAX_RETRIES == 5

EndpointURL == "https://example.com/api/v2/runs.json"

\* the body of a response: empty, text that is no JSON, or a JSON document
EmptyBody == [kind |-> "empty", text |-> "", doc |-> None]
JsonBody(d) == [kind |-> "json", text |-> "json", doc |-> d]

\* a response with a status line, and a transport failure of requests.request
HttpResponse(status, body, retry_after) ==
    [exc |-> "none", status |-> status, content |-> body, retry_after |-> retry_after]
TransportFailure(exc) ==
    [exc |-> exc, status |-> 0, content |-> EmptyBody, retry_after |-> None]

\* response.json(): json.loads of the content, which raises ValueError on
\* anything that is no JSON document (the empty body included)
JsonLoads(content) ==
    IF content.kind = "json"
    THEN [raised |-> FALSE, doc |-> content.doc]
    ELSE [raised |-> TRUE, doc |-> None]

\* int(s) of a header value: the decimal literals convert, the rest raises
IntLiterals == {"0", "1", "2"}
PyInt(s) ==
    CASE s = "0" -> 0
      [] s = "1" -> 1
      [] s = "2" -> 2

-----------------------------------------------------------------------------
(* Outcomes of a call: a returned value or a raised exception *)

Return(v) == [kind |-> "return", null |-> FALSE, value |-> v, retry_after |-> 0]
ReturnNone == [kind |-> "return", null |-> TRUE, value |-> None, retry_after |-> 0]
Raise(e) == [kind |-> e, null |-> TRUE, value |-> None, retry_after |-> 0]
RaiseWith(e, v) == [kind |-> e, null |-> FALSE, value |-> v, retry_after |-> 0]
RaiseRateExceeded(n) ==
    [kind |-> "TembaRateExceededError", null |-> TRUE, value |-> None, retry_after |-> n]
NoResult == [kind |-> "pending", null |-> TRUE, value |-> None, retry_after |-> 0]

\* Response.raise_for_status(): HTTPError for the 4xx and 5xx statuses
RaisesForStatus(status) == 400 <= status /\ status < 600

\* BaseClient._request: the classification of one response
BaseClient_request_NoCatch(resp) ==
    IF resp.exc = "ConnectionError" THEN Raise("TembaConnectionError")
    ELSE IF resp.status = 400 THEN
        LET parsed == JsonLoads(resp.content) IN
        IF parsed.raised THEN Raise("ValueError")
        ELSE RaiseWith("TembaBadRequestError", parsed.doc)
    ELSE IF resp.status = 403 THEN Raise("TembaTokenError")
    ELSE IF resp.status = 404 THEN Raise("TembaNoSuchObjectError")
    ELSE IF resp.status = 429 THEN
        IF StrTruthy(resp.retry_after)
        THEN IF resp.retry_after \in IntLiterals
             THEN RaiseRateExceeded(PyInt(resp.retry_after))
             ELSE Raise("ValueError")
        ELSE RaiseRateExceeded(0)
    ELSE IF RaisesForStatus(resp.status) THEN RaiseWith("TembaHttpError", [status |-> resp.status])
    ELSE IF resp.content.kind # "empty" THEN
        LET parsed == JsonLoads(resp.content) IN
        IF parsed.raised THEN Raise("ValueError") ELSE Return(parsed.doc)
    ELSE ReturnNone

BaseClient_request(resp) ==
    IF resp.exc = "ConnectionError" THEN Raise("TembaConnectionError")
    ELSE IF resp.status = 400 THEN
        LET parsed == JsonLoads(resp.content) IN
        RaiseWith("TembaBadRequestError",
                  IF parsed.raised
                  THEN PyDict([details |-> PyList(<<PyStr(<<resp.content.text>>)>>)])
                  ELSE parsed.doc)
    ELSE IF resp.status = 403 THEN Raise("TembaTokenError")
    ELSE IF resp.status = 404 THEN Raise("TembaNoSuchObjectError")
    ELSE IF resp.status = 429 THEN
        IF StrTruthy(resp.retry_after)
        THEN IF resp.retry_after \in IntLiterals
             THEN RaiseRateExceeded(PyInt(resp.retry_after))
             ELSE Raise("ValueError")
        ELSE RaiseRateExceeded(0)
    ELSE IF RaisesForStatus(resp.status) THEN RaiseWith("TembaHttpError", [status |-> resp.status])
    ELSE IF resp.content.kind # "empty" THEN
        LET parsed == JsonLoads(resp.content) IN
        IF parsed.raised THEN Raise("ValueError") ELSE Return(parsed.doc)
    ELSE ReturnNone

\* the place of a key in the payload of a 400, in the order of the document
ErrorKeyPos(k) ==
    CASE k = "field1" -> 1
      [] k = "field2" -> 2
      [] OTHER -> 1

\* the error strings of a mapping: for each key in order its message, or the
\* messages of its list
RECURSIVE FieldErrors(_, _)
FieldErrors(d, keys) ==
    IF keys = {} THEN << >>
    ELSE LET k == CHOOSE k \in keys : \A j \in keys : ErrorKeyPos(k) <= ErrorKeyPos(j) IN
         (IF d[k].t = "str" THEN <<d[k]>> ELSE d[k].items) \o FieldErrors(d, keys \ {k})

\* sep.join(msgs), as the sequence of its pieces
RECURSIVE Join(_, _)
Join(msgs, sep) ==
    IF msgs = << >> THEN << >>
    ELSE IF Len(msgs) = 1 THEN msgs[1].chars
    ELSE msgs[1].chars \o <<sep>> \o Join(Tail(msgs), sep)

\* the message of a Bad Request error: the individual error strings of its
\* payload, joined with ". "
TembaBadRequestError_message(errors) ==
    Join(IF errors.t = "dict" THEN FieldErrors(errors.d, DOMAIN errors.d)
         ELSE IF errors.t = "list" THEN errors.items
         ELSE <<errors>>, ". ")

\* the query parameters requests.request is given: `if params: kwargs["params"] = params`
SentParams(params) == IF DOMAIN params # {} THEN params ELSE EmptyDict

\* BaseCursorClient._request_wth_rate_limit_retry, the except clause: after the
\* retries-th Rate Exceeded of this call (already counted), sleep and go round
\* the loop again, or re-raise
SleepsAndRetries_OffByOne(retries, ex) == retries <= MAX_RETRIES /\ ex.retry_after # 0

SleepsAndRetries_NoHeaderCheck(retries, ex) == retries < MAX_RETRIES

SleepsAndRetries(retries, ex) == retries < MAX_RETRIES /\ ex.retry_after # 0

\* BaseCursorClient._request: does the outcome of one exchange lead to another
\* exchange of the same request?
RetriesRequest_IgnoresFlag(retry_on_rate_exceed, retries, out) ==
    /\ out.kind = "TembaRateExceededError"
    /\ SleepsAndRetries(retries + 1, out)

RetriesRequest(retry_on_rate_exceed, retries, out) ==
    /\ retry_on_rate_exceed
    /\ out.kind = "TembaRateExceededError"
    /\ SleepsAndRetries(retries + 1, out)

-----------------------------------------------------------------------------
(* utils.py: ISO-8601 datetimes *)

ISO8601_DATE_FORMAT == <<"%Y-%m-%d">>
ISO8601_DATETIME_FORMAT == ISO8601_DATE_FORMAT \o <<"T", "%H:%M:%S">>

\* `c in value` for a piece c of a string
Contains(chars, c) == \E i \in 1..Len(chars) : chars[i] = c

\* strftime's %f: the microseconds as six digits
SixDigits(microsecond) ==
    CASE microsecond = 0 -> "000000"
      [] microsecond = 671000 -> "671000"

\* does a piece of the string match a directive or a literal of the format?
\* (the dates, times and fractions of a second that occur on the wire)
Matches(piece, directive) ==
    CASE directive = "%Y-%m-%d" -> piece \in {"2014-01-02"}
      [] directive = "%H:%M:%S" -> piece \in {"00:00:00", "03:04:05"}
      [] directive = "%f" -> piece \in {"000000", "671", "671000"}
      [] OTHER -> piece = directive

\* datetime.datetime.strptime(value, _format).replace(tzinfo=pytz.utc): the
\* whole string has to match the format; %f takes one to six digits, zero
\* padded on the right
Strptime(chars, format) ==
    IF Len(chars) = Len(format) /\ \A i \in 1..Len(chars) : Matches(chars[i], format[i])
    THEN Ok(PyDatetime(chars[1],
                       IF Contains(format, "%H:%M:%S") THEN chars[3] ELSE "00:00:00",
                       IF Contains(format, "%f")
                       THEN (IF chars[5] = "000000" THEN 0 ELSE 671000)
                       ELSE 0))
    ELSE Fails("ValueError")

\* parse_iso8601
parse_iso8601(value) ==
    IF ~PyTruthy(value) THEN Ok(PyNone)
    ELSE IF value.t # "str" THEN Fails("TypeError")
    ELSE Strptime(value.chars,
                  IF Contains(value.chars, "T")
                  THEN ISO8601_DATETIME_FORMAT
                       \o (IF Contains(value.chars, ".") THEN <<".", "%f">> ELSE << >>)
                       \o (IF Contains(value.chars, "Z") THEN <<"Z">> ELSE << >>)
                  ELSE ISO8601_DATE_FORMAT)

format_iso8601_NoZone(value) ==
    IF value.t = "NoneType" THEN Ok(PyNone)
    ELSE Ok(PyStr(<<value.date, "T", value.time, ".", SixDigits(value.microsecond)>>))

\* format_iso8601: value.astimezone(pytz.UTC).strftime(ISO8601_DATETIME_FORMAT + '.%fZ')
format_iso8601(value) ==
    IF value.t = "NoneType" THEN Ok(PyNone)
    ELSE IF value.t # "datetime" THEN Fails("AttributeError")
    ELSE Ok(PyStr(<<value.date, "T", value.time, ".", SixDigits(value.microsecond), "Z">>))

-----------------------------------------------------------------------------
(* Typed objects and their fields *)

\* a declared field: attr = <kind>Field(src=src, optional=optional,
\* item_class=item_class), the pos-th field of its class; a class is the set of
\* its declared fields
Field(pos, attr, kind, src, optional, item_class) ==
    [pos |-> pos, attr |-> attr, kind |-> kind, src |-> src, optional |-> optional,
     item_class |-> item_class]

\* class RuleSet(TembaObject): uuid = SimpleField(src='node'),
\* label = SimpleField(), response_type = SimpleField()
RuleSet ==
    { Field(1, "uuid", "Simple", "node", FALSE, {}),
      Field(2, "label", "Simple", None, FALSE, {}),
      Field(3, "response_type", "Simple", None, FALSE, {}) }

\* class TestSubType(TembaObject): zed = SimpleField()
TestSubType == { Field(1, "zed", "Simple", None, FALSE, {}) }

\* class TestType(TembaObject): foo = SimpleField(), bar = IntegerField(),
\* doh = DatetimeField(), hum = ObjectListField(item_class=TestSubType)
TestType ==
    { Field(1, "foo", "Simple", None, FALSE, {}),
      Field(2, "bar", "Integer", None, FALSE, {}),
      Field(3, "doh", "Datetime", None, FALSE, {}),
      Field(4, "hum", "ObjectList", None, FALSE, TestSubType) }

\* field_source = field.src if field.src else attr_name
FieldSource(f) == IF StrTruthy(f.src) THEN f.src ELSE f.attr

\* the first of a set of fields, in the order of declaration
FirstField(fields) == CHOOSE f \in fields : \A g \in fields : f.pos <= g.pos

\* SimpleField.deserialize
SimpleField_deserialize(value) == value

\* SimpleField.serialize, which BooleanField and IntegerField inherit
SimpleField_serialize(value) == value

\* BooleanField.deserialize
BooleanField_deserialize(value) ==
    IF value.t # "NoneType" /\ value.t # "bool"
    THEN Fails("TembaSerializationException")
    ELSE Ok(value)

\* IntegerField.deserialize: type(value) not in six.integer_types
IntegerField_deserialize_IsInstance(value) ==
    IF value.t \notin {"NoneType", "int", "bool"}
    THEN Fails("TembaSerializationException")
    ELSE Ok(value)

IntegerField_deserialize(value) ==
    IF value.t # "NoneType" /\ value.t # "int"
    THEN Fails("TembaSerializationException")
    ELSE Ok(value)

RECURSIVE TembaObject_deserialize(_, _)
RECURSIVE TembaObject_serialize(_)

\* the first failure among the outcomes of a sequence of conversions
FirstFailure(outcomes) ==
    outcomes[CHOOSE i \in 1..Len(outcomes) :
                /\ outcomes[i].raised
                /\ \A j \in 1..(i - 1) : ~outcomes[j].raised]

\* TembaObject.deserialize_list: [cls.deserialize(item) for item in item_list]
TembaObject_deserialize_list(clazz, item_list) ==
    LET outcomes == [i \in 1..Len(item_list) |-> TembaObject_deserialize(clazz, item_list[i])]
    IN  IF \E i \in 1..Len(item_list) : outcomes[i].raised
        THEN Raise(FirstFailure(outcomes).exc)
        ELSE Return([i \in 1..Len(item_list) |-> outcomes[i].value])

\* ObjectField.deserialize (item_class.deserialize is followed for mappings)
ObjectField_deserialize(item_class, value) ==
    IF value.t # "NoneType"
    THEN LET made == TembaObject_deserialize(item_class, value.d) IN
         IF made.raised THEN made ELSE Ok(PyObject(item_class, made.value))
    ELSE Ok(PyNone)

\* ObjectField.serialize
ObjectField_serialize(item_class, value) ==
    IF value.t # "NoneType" THEN TembaObject_serialize(value) ELSE Ok(PyNone)

\* ObjectListField.deserialize (its items are mappings)
ObjectListField_deserialize(item_class, value) ==
    IF value.t # "list" THEN Fails("TembaSerializationException")
    ELSE LET items == [i \in 1..Len(value.items) |-> value.items[i].d]
             made == TembaObject_deserialize_list(item_class, items)
         IN  IF made.kind # "return" THEN Fails(made.kind)
             ELSE Ok(PyList([i \in 1..Len(items) |-> PyObject(item_class, made.value[i])]))

\* ObjectListField.serialize
ObjectListField_serialize(item_class, value) ==
    IF value.t # "list" THEN Fails("TembaSerializationException")
    ELSE LET outcomes == [i \in 1..Len(value.items) |-> TembaObject_serialize(value.items[i])]
         IN  IF \E i \in 1..Len(outcomes) : outcomes[i].raised
             THEN FirstFailure(outcomes)
             ELSE Ok(PyList([i \in 1..Len(outcomes) |-> outcomes[i].value]))

\* ObjectDictField.deserialize (its values are mappings)
ObjectDictField_deserialize(item_class, value) ==
    IF value.t # "dict" THEN Fails("TembaSerializationException")
    ELSE LET made == [k \in DOMAIN value.d |-> TembaObject_deserialize(item_class, value.d[k].d)]
         IN  IF \E k \in DOMAIN made : made[k].raised
             THEN made[CHOOSE k \in DOMAIN made : made[k].raised]
             ELSE Ok(PyDict([k \in DOMAIN made |-> PyObject(item_class, made[k].value)]))

\* ObjectDictField.serialize
ObjectDictField_serialize(item_class, value) ==
    IF value.t # "dict" THEN Fails("TembaSerializationException")
    ELSE LET made == [k \in DOMAIN value.d |-> TembaObject_serialize(value.d[k])]
         IN  IF \E k \in DOMAIN made : made[k].raised
             THEN made[CHOOSE k \in DOMAIN made : made[k].raised]
             ELSE Ok(PyDict([k \in DOMAIN made |-> made[k].value]))

\* field.deserialize(value), by the variant of the field
TembaField_deserialize(f, value) ==
    CASE f.kind = "Simple" -> Ok(SimpleField_deserialize(value))
      [] f.kind = "Boolean" -> BooleanField_deserialize(value)
      [] f.kind = "Integer" -> IntegerField_deserialize(value)
      [] f.kind = "Datetime" -> parse_iso8601(value)
      [] f.kind = "Object" -> ObjectField_deserialize(f.item_class, value)
      [] f.kind = "ObjectList" -> ObjectListField_deserialize(f.item_class, value)
      [] f.kind = "ObjectDict" -> ObjectDictField_deserialize(f.item_class, value)

\* field.serialize(value), by the variant of the field
TembaField_serialize(f, value) ==
    CASE f.kind \in {"Simple", "Boolean", "Integer"} -> Ok(SimpleField_serialize(value))
      [] f.kind = "Datetime" -> format_iso8601(value)
      [] f.kind = "Object" -> ObjectField_serialize(f.item_class, value)
      [] f.kind = "ObjectList" -> ObjectListField_serialize(f.item_class, value)
      [] f.kind = "ObjectDict" -> ObjectDictField_serialize(f.item_class, value)

\* TembaObject.deserialize, one round of its loop: a missing key of a field
\* that is not optional raises, otherwise item.get(field_source, None) goes
\* through the field's deserialize
DeserializedField(f, item) ==
    IF FieldSource(f) \notin DOMAIN item /\ ~f.optional
    THEN Fails("TembaSerializationException")
    ELSE TembaField_deserialize(f, IF FieldSource(f) \in DOMAIN item
                                   THEN item[FieldSource(f)] ELSE PyNone)

\* TembaObject.deserialize: the attributes of the instance, or the exception
\* of the first field that fails
TembaObject_deserialize(clazz, item) ==
    LET failing == {f \in clazz : DeserializedField(f, item).raised} IN
    IF failing # {}
    THEN Fails(DeserializedField(FirstField(failing), item).exc)
    ELSE Ok([a \in {f.attr : f \in clazz} |->
                DeserializedField((CHOOSE g \in clazz : g.attr = a), item).value])

\* TembaObject.serialize: item[field_source] = field.serialize(getattr(self,
\* attr_name, None)) for the fields of the instance's class
TembaObject_serialize(self) ==
    LET serialized(f) ==
            TembaField_serialize(f, IF f.attr \in DOMAIN self.attrs
                                    THEN self.attrs[f.attr] ELSE PyNone)
        failing == {f \in self.clazz : serialized(f).raised}
    IN  IF failing # {}
        THEN Fails(serialized(FirstField(failing)).exc)
        ELSE Ok(PyDict([k \in {FieldSource(f) : f \in self.clazz} |->
                           serialized((CHOOSE g \in self.clazz : FieldSource(g) = k)).value]))

\* TembaObject.create
TembaObject_create_IgnoresUnknown(clazz, kwargs) ==
    Return(PyObject(clazz, [a \in {f.attr : f \in clazz} |->
                               IF a \in DOMAIN kwargs THEN kwargs[a] ELSE PyNone]))

TembaObject_create(clazz, kwargs) ==
    IF DOMAIN kwargs \ {f.attr : f \in clazz} # {}
    THEN Raise("ValueError")
    ELSE Return(PyObject(clazz, [a \in {f.attr : f \in clazz} |->
                                    IF a \in DOMAIN kwargs THEN kwargs[a] ELSE PyNone]))

-----------------------------------------------------------------------------
(* The responses the server is taken to give *)

\* wire items: two well-formed rule sets; a third, in the last of the result
\* lists, lacks a required key
Item1 == [node |-> "n1", label |-> "L1", response_type |-> "C"]
Item2 == [node |-> "n2", label |-> "L2", response_type |-> "O"]

ResultChoices ==
    { << >>, <<Item1>>, <<Item2, Item1>>, <<Item1, Item1>>,
      <<Item2, [node |-> "n3", label |-> "L3"]>> }

\* the next URLs of the server: the endpoint with a cursor in the query string
NextURL1 == "https://example.com/api/v2/runs.json?cursor=c1%3D&flow=f1"
NextURL2 == "https://example.com/api/v2/runs.json?cursor=c2&flow=f1"

\* the params a caller builds for a query
ParamChoices == { EmptyDict, [flow |-> "f1"] }

\* the payloads of a 400, as Python values: a mapping from a field to its
\* message or to the list of its messages, a list of messages, a message
ErrorDoc == PyDict([detail |-> PyStr(<<"Msg">>)])
FieldErrorsDoc == PyDict([field1 |-> PyList(<<PyStr(<<"Msg1">>), PyStr(<<"Msg2">>)>>)])
TwoFieldsDoc ==
    PyDict([field1 |-> PyList(<<PyStr(<<"Msg1">>)>>),
            field2 |-> PyList(<<PyStr(<<"Msg2">>), PyStr(<<"Msg3">>)>>)])
ListErrorsDoc == PyList(<<PyStr(<<"Msg1">>), PyStr(<<"Msg2">>)>>)
OneErrorDoc == PyList(<<PyStr(<<"Msg1">>)>>)

\* a page based endpoint, its next URLs and its pages
PageEndpointURL == "https://example.com/api/v1/contacts.json"
PageURL2 == "https://example.com/api/v1/contacts.json?page=2"
PageURL3 == "https://example.com/api/v1/contacts.json?page=3"

\* every shape of response the request engine distinguishes
RequestResponses ==
    {TransportFailure("ConnectionError")}
    \cup { HttpResponse(s, b, None) :
             s \in {200, 400, 403, 404, 414, 500},
             b \in {EmptyBody, [kind |-> "text", text |-> "XYZ", doc |-> None], JsonBody(ErrorDoc),
                    JsonBody([results |-> <<Item1>>, next |-> None])} }
    \cup { HttpResponse(400, JsonBody(d), None) :
             d \in { ErrorDoc, FieldErrorsDoc, TwoFieldsDoc, ListErrorsDoc, OneErrorDoc } }
    \cup { HttpResponse(s, EmptyBody, None) : s \in {204, 304} }
    \cup { HttpResponse(429, EmptyBody, h) : h \in {None, "0", "1", "2", "soon"} }

\* a cursor endpoint: pages, and now and then a failure
CursorResponses ==
    { HttpResponse(200, JsonBody([results |-> r, next |-> n]), None) :
        r \in ResultChoices, n \in {None, NextURL1, NextURL2} }
    \cup { HttpResponse(429, EmptyBody, "1"), HttpResponse(404, EmptyBody, None) }

\* a page based endpoint: pages, and now and then a failure
PagingResponses ==
    { HttpResponse(200, JsonBody([results |-> r, count |-> c, next |-> n]), None) :
        r \in { x \in ResultChoices : \A i \in 1..Len(x) : "response_type" \in DOMAIN x[i] },
        c \in {2, 21}, n \in {None, PageURL2, PageURL3} }
    \cup { HttpResponse(404, EmptyBody, None), TransportFailure("ConnectionError") }

-----------------------------------------------------------------------------
(* The state after construction *)

NoRequest == [url |-> None, params |-> EmptyDict, retry |-> FALSE, retries |-> 0]
NoHistory ==
    [cursor0 |-> None, params0 |-> EmptyDict, fetched |-> 0, lastNext |-> None,
     before |-> 0, prevNext |-> None]
NoArgs == [from_results |-> FALSE]

\* BaseCursorClient._get_query: CursorQuery(self, "<root>/<endpoint>.json", params, clazz)
Init ==
    /\ op = [name |-> "none", pc |-> "idle"]
    /\ pend = NoRequest
    /\ reqs = << >>
    /\ sleeps = << >>
    /\ result = NoResult
    /\ acc = << >>
    /\ query = [url |-> EndpointURL, params |-> "q"]
    /\ \E p \in ParamChoices : heap = [q |-> p, own |-> EmptyDict]
    /\ iter = [made |-> FALSE, owner |-> "caller", url |-> None, params |-> "q",
               retry_on_rate_exceed |-> FALSE, resume_cursor |-> None]
    /\ pager = [made |-> FALSE, start_page |-> 1, counted |-> FALSE, count |-> 0,
                next_url |-> None]
    /\ calls = 0
    /\ ghost = NoHistory
    /\ args = NoArgs

\* a call with the arguments a starts when no other call is in progress; its
\* logs start empty
Call(name, pc, a) ==
    /\ op.pc # "http"
    /\ op' = [name |-> name, pc |-> pc]
    /\ reqs' = << >>
    /\ sleeps' = << >>
    /\ args' = a

Begin(name, pc) == Call(name, pc, NoArgs)

\* one HTTP exchange of the pending request
Issue(resp) ==
    reqs' = Append(reqs, [url |-> pend.url, params |-> SentParams(pend.params), resp |-> resp])

\* the call ends with the outcome out
Finish(out) ==
    /\ op' = [op EXCEPT !.pc = "done"]
    /\ result' = out
    /\ pend' = pend

-----------------------------------------------------------------------------
(* BaseCursorClient._get_raw / _request *)

GetRaw(params, retry_on_rate_exceed) ==
    /\ Begin("raw", "http")
    /\ pend' = [url |-> EndpointURL, params |-> params,
                retry |-> retry_on_rate_exceed, retries |-> 0]
    /\ result' = NoResult
    /\ UNCHANGED <<acc, cursorVars, pager, calls, ghost>>

\* time.sleep(ex.retry_after), then round the `while True` loop again
SleepAndRetry(out) ==
    /\ sleeps' = Append(sleeps, out.retry_after)
    /\ pend' = [pend EXCEPT !.retries = @ + 1]

ExchangeRaw(resp) ==
    /\ op.name = "raw" /\ op.pc = "http"
    /\ Issue(resp)
    /\ LET out == BaseClient_request(resp) IN
       IF RetriesRequest(pend.retry, pend.retries, out)
       THEN /\ SleepAndRetry(out)
            /\ UNCHANGED <<op, result>>
       ELSE /\ sleeps' = sleeps
            /\ Finish(out)
    /\ UNCHANGED <<acc, cursorVars, pager, calls, ghost, args>>

Next ==
    \/ \E p \in ParamChoices, r \in BOOLEAN : GetRaw(p, r)
    \/ \E resp \in RequestResponses : ExchangeRaw(resp)

Spec == Init /\ [][Next]_vars

-----------------------------------------------------------------------------
(* CursorIterator and CursorQuery *)

\* d[k] = v on a dict
DictSet(d, k, v) == [x \in DOMAIN d \cup {k} |-> IF x = k THEN v ELSE d[x]]

\* CursorQuery.iterfetches / CursorIterator.__init__: the iterator shares the
\* params dict of the query
CursorIterator_init(owner, retry_on_rate_exceed, resume_cursor) ==
    [made |-> TRUE, owner |-> owner, url |-> query.url, params |-> query.params,
     retry_on_rate_exceed |-> retry_on_rate_exceed, resume_cursor |-> resume_cursor]

\* CursorIterator.__next__, up to the request: a pending resume cursor is
\* written into the dict that self.params refers to
CursorIterator_inject(it, hp) ==
    IF StrTruthy(it.resume_cursor)
    THEN [hp EXCEPT ![it.params] = DictSet(@, "cursor", it.resume_cursor)]
    ELSE hp

\* the request __next__ issues: self.client._request("get", self.url,
\* params=self.params, retry_on_rate_exceed=self.retry_on_rate_exceed)
CursorIterator_request(it, hp) ==
    [url |-> it.url, params |-> hp[it.params], retry |-> it.retry_on_rate_exceed,
     retries |-> 0]

\* CursorIterator.__next__, the assignments after the request:
\* self.url = response["next"]; self.resume_cursor = None; self.params = {}
CursorIterator_advance_KeepsCursor(it, response) ==
    [it EXCEPT !.url = response.next, !.params = "own"]

CursorIterator_advance(it, response) ==
    [it EXCEPT !.url = response.next, !.resume_cursor = None, !.params = "own"]

\* CursorIterator.__next__ from the outcome of its request on: the iterator,
\* the heap, and the batch returned or the exception raised
CursorIterator_next_ClearsCursorFirst(it, hp, out) ==
    IF out.kind # "return"
    THEN [iter |-> [it EXCEPT !.resume_cursor = None], heap |-> hp, out |-> out]
    ELSE IF out.null THEN [iter |-> it, heap |-> hp, out |-> Raise("TypeError")]
    ELSE IF "next" \notin DOMAIN out.value
    THEN [iter |-> it, heap |-> hp, out |-> Raise("KeyError")]
    ELSE LET response == out.value
             it2 == CursorIterator_advance(it, response)
             hp2 == [hp EXCEPT !.own = EmptyDict]
         IN  IF "results" \notin DOMAIN response
             THEN [iter |-> it2, heap |-> hp2, out |-> Raise("KeyError")]
             ELSE IF Len(response.results) = 0
             THEN [iter |-> it2, heap |-> hp2, out |-> Raise("StopIteration")]
             ELSE [iter |-> it2, heap |-> hp2,
                   out |-> TembaObject_deserialize_list(RuleSet, response.results)]

CursorIterator_next(it, hp, out) ==
    IF out.kind # "return" THEN [iter |-> it, heap |-> hp, out |-> out]
    ELSE IF out.null THEN [iter |-> it, heap |-> hp, out |-> Raise("TypeError")]
    ELSE IF "next" \notin DOMAIN out.value
    THEN [iter |-> it, heap |-> hp, out |-> Raise("KeyError")]
    ELSE LET response == out.value
             it2 == CursorIterator_advance(it, response)
             hp2 == [hp EXCEPT !.own = EmptyDict]
         IN  IF "results" \notin DOMAIN response
             THEN [iter |-> it2, heap |-> hp2, out |-> Raise("KeyError")]
             ELSE IF Len(response.results) = 0
             THEN [iter |-> it2, heap |-> hp2, out |-> Raise("StopIteration")]
             ELSE [iter |-> it2, heap |-> hp2,
                   out |-> TembaObject_deserialize_list(RuleSet, response.results)]

\* CursorQuery.all: results += fetch
Extend_Overwrites(results, fetch) == fetch

Extend(results, fetch) == results \o fetch

\* the history of an iterator: what it was made with, and its completed fetches
NewHistory(resume_cursor) ==
    [NoHistory EXCEPT !.cursor0 = resume_cursor, !.params0 = heap[query.params]]
Fetched(out) == out.kind = "return" /\ ~out.null /\ "next" \in DOMAIN out.value
Recorded(out) ==
    IF Fetched(out)
    THEN [ghost EXCEPT !.fetched = @ + 1, !.lastNext = out.value.next]
    ELSE ghost

\* query.iterfetches(retry_on_rate_exceed, resume_cursor), by the caller
Iterfetches(retry_on_rate_exceed, resume_cursor) ==
    /\ Begin("iterfetches", "done")
    /\ iter' = CursorIterator_init("caller", retry_on_rate_exceed, resume_cursor)
    /\ ghost' = NewHistory(resume_cursor)
    /\ calls' = 0
    /\ result' = NoResult
    /\ UNCHANGED <<pend, acc, query, heap, pager>>

\* iterator.__next__(), by the caller: up to its request, or StopIteration
\* when no URL remains
IterNext ==
    /\ iter.made /\ iter.owner = "caller" /\ calls < MaxCalls
    /\ Begin("next", IF StrTruthy(iter.url) THEN "http" ELSE "done")
    /\ calls' = calls + 1
    /\ ghost' = [ghost EXCEPT !.before = ghost.fetched, !.prevNext = ghost.lastNext]
    /\ IF StrTruthy(iter.url)
       THEN /\ heap' = CursorIterator_inject(iter, heap)
            /\ pend' = CursorIterator_request(iter, heap')
            /\ result' = NoResult
       ELSE /\ result' = Raise("StopIteration")
            /\ UNCHANGED <<pend, heap>>
    /\ UNCHANGED <<acc, query, iter, pager>>

\* iterator.__next__(), by the caller: one exchange, and the rest of the call
ExchangeNext(resp) ==
    /\ op.name = "next" /\ op.pc = "http"
    /\ Issue(resp)
    /\ LET out == BaseClient_request(resp) IN
       IF RetriesRequest(pend.retry, pend.retries, out)
       THEN /\ SleepAndRetry(out)
            /\ UNCHANGED <<op, result, iter, heap, ghost>>
       ELSE LET after == CursorIterator_next(iter, heap, out) IN
            /\ sleeps' = sleeps
            /\ iter' = after.iter
            /\ heap' = after.heap
            /\ ghost' = Recorded(out)
            /\ Finish(after.out)
    /\ UNCHANGED <<acc, query, pager, calls, args>>

\* query.all(retry_on_rate_exceed): a fresh iterator, and its first __next__
\* up to the request
QueryAll(retry_on_rate_exceed) ==
    /\ Begin("all", "http")
    /\ LET it == CursorIterator_init("all", retry_on_rate_exceed, None) IN
       /\ iter' = it
       /\ heap' = CursorIterator_inject(it, heap)
       /\ pend' = CursorIterator_request(it, heap')
    /\ ghost' = NewHistory(None)
    /\ acc' = << >>
    /\ calls' = 0
    /\ result' = NoResult
    /\ UNCHANGED <<query, pager>>

\* query.all(): one exchange, the rest of that __next__, `results += fetch`, and
\* the following __next__ up to its request; StopIteration ends the loop
ExchangeAll(resp) ==
    /\ op.name = "all" /\ op.pc = "http" /\ Len(reqs) < MaxReqs
    /\ Issue(resp)
    /\ LET out == BaseClient_request(resp) IN
       IF RetriesRequest(pend.retry, pend.retries, out)
       THEN /\ SleepAndRetry(out)
            /\ UNCHANGED <<op, result, acc, iter, heap, ghost>>
       ELSE LET after == CursorIterator_next(iter, heap, out) IN
            /\ sleeps' = sleeps
            /\ iter' = after.iter
            /\ ghost' = Recorded(out)
            /\ IF after.out.kind = "StopIteration"
               THEN /\ heap' = after.heap
                    /\ acc' = acc
                    /\ Finish(Return(acc))
               ELSE IF after.out.kind # "return"
               THEN /\ heap' = after.heap
                    /\ acc' = acc
                    /\ Finish(after.out)
               ELSE /\ acc' = Extend(acc, after.out.value)
                    /\ IF StrTruthy(after.iter.url)
                       THEN /\ heap' = CursorIterator_inject(after.iter, after.heap)
                            /\ pend' = CursorIterator_request(after.iter, heap')
                            /\ UNCHANGED <<op, result>>
                       ELSE /\ heap' = after.heap
                            /\ Finish(Return(acc'))
    /\ UNCHANGED <<query, pager, calls, args>>

\* urlparse(url).query, split at '&' and '=': the pairs of the query string of
\* the URLs of the model, their values still percent-encoded
UrlQuery(url) ==
    CASE url = NextURL1 -> << <<"cursor", "c1%3D">>, <<"flow", "f1">> >>
      [] url = NextURL2 -> << <<"cursor", "c2">>, <<"flow", "f1">> >>
      [] OTHER -> << >>

\* urllib's unquote of a query string value
Unquote_Identity(s) == s

Unquote(s) ==
    CASE s = "c1%3D" -> "c1="
      [] OTHER -> s

\* parse_qs: every key with the list of its decoded values, in order; pairs
\* with a blank value are left out
ParseQs(pairs) ==
    LET kept == SelectSeq(pairs, LAMBDA p : p[2] # "") IN
    [k \in {kept[i][1] : i \in 1..Len(kept)} |->
        LET mine == SelectSeq(kept, LAMBDA p : p[1] = k) IN
        [i \in 1..Len(mine) |-> Unquote(mine[i][2])]]

\* CursorIterator.get_cursor
CursorIterator_get_cursor(it) ==
    IF ~StrTruthy(it.url) THEN ReturnNone
    ELSE LET query_dict == ParseQs(UrlQuery(it.url)) IN
         IF "cursor" \in DOMAIN query_dict /\ query_dict["cursor"] # << >>
         THEN Return(query_dict["cursor"][1])
         ELSE ReturnNone

\* iterator.get_cursor(), by the caller
GetCursor ==
    /\ iter.made /\ iter.owner = "caller"
    /\ Begin("get_cursor", "done")
    /\ result' = CursorIterator_get_cursor(iter)
    /\ UNCHANGED <<pend, acc, cursorVars, pager, calls, ghost>>

\* CursorQuery.first, from the outcome of next(self.iterfetches(...)) on:
\* fetch[0], or None on StopIteration
CursorQuery_first_LastOfBatch(out) ==
    IF out.kind = "StopIteration" THEN ReturnNone
    ELSE IF out.kind = "return" THEN Return(Last(out.value))
    ELSE out

CursorQuery_first(out) ==
    IF out.kind = "StopIteration" THEN ReturnNone
    ELSE IF out.kind = "return" THEN Return(out.value[1])
    ELSE out

\* query.first(retry_on_rate_exceed): a fresh iterator, and its __next__ up to
\* the request
QueryFirst(retry_on_rate_exceed) ==
    /\ Begin("first", "http")
    /\ LET it == CursorIterator_init("first", retry_on_rate_exceed, None) IN
       /\ iter' = it
       /\ heap' = CursorIterator_inject(it, heap)
       /\ pend' = CursorIterator_request(it, heap')
    /\ ghost' = NewHistory(None)
    /\ acc' = << >>
    /\ calls' = 0
    /\ result' = NoResult
    /\ UNCHANGED <<query, pager>>

\* query.first(): one exchange, the rest of that __next__, and the return
ExchangeFirst(resp) ==
    /\ op.name = "first" /\ op.pc = "http"
    /\ Issue(resp)
    /\ LET out == BaseClient_request(resp) IN
       IF RetriesRequest(pend.retry, pend.retries, out)
       THEN /\ SleepAndRetry(out)
            /\ UNCHANGED <<op, result, iter, heap, ghost>>
       ELSE LET after == CursorIterator_next(iter, heap, out) IN
            /\ sleeps' = sleeps
            /\ iter' = after.iter
            /\ heap' = after.heap
            /\ ghost' = Recorded(out)
            /\ Finish(CursorQuery_first(after.out))
    /\ UNCHANGED <<acc, query, pager, calls, args>>

NextCursor ==
    \/ \E r \in BOOLEAN, c \in { None, "qwERty=" } : Iterfetches(r, c)
    \/ IterNext
    \/ \E resp \in CursorResponses : ExchangeNext(resp)
    \/ \E r \in BOOLEAN : QueryAll(r)
    \/ \E resp \in CursorResponses : ExchangeAll(resp)
    \/ \E r \in BOOLEAN : QueryFirst(r)
    \/ \E resp \in CursorResponses : ExchangeFirst(resp)
    \/ GetCursor

SpecCursor == Init /\ [][NextCursor]_vars

-----------------------------------------------------------------------------
(* Pager and BasePagingClient *)

\* Pager.__init__
Pager_init(start_page) ==
    [made |-> TRUE, start_page |-> start_page, counted |-> FALSE, count |-> 0,
     next_url |-> None]

\* Pager.update: self.count = response["count"]; self.next_url = response["next"]
Pager_update_KeepsNext(pg, response) ==
    [pg EXCEPT !.counted = TRUE, !.count = response.count]

Pager_update(pg, response) ==
    [pg EXCEPT !.counted = TRUE, !.count = response.count, !.next_url = response.next]

\* Pager.has_more
Pager_has_more(pg) == StrTruthy(pg.next_url)

\* BasePagingClient._get_page, up to the request: its URL and its params
BasePagingClient_get_page_request(pg, params) ==
    IF StrTruthy(pg.next_url)
    THEN [url |-> pg.next_url, params |-> EmptyDict, retry |-> FALSE, retries |-> 0]
    ELSE [url |-> PageEndpointURL,
          params |-> IF pg.start_page # 1 THEN DictSet(params, "page", pg.start_page)
                     ELSE params,
          retry |-> FALSE, retries |-> 0]

\* BasePagingClient._get_page from the outcome of its request on: the pager and
\* the results returned or the exception raised
BasePagingClient_get_page(pg, out) ==
    IF out.kind # "return" THEN [pager |-> pg, out |-> out]
    ELSE IF out.null THEN [pager |-> pg, out |-> Raise("TypeError")]
    ELSE IF "count" \notin DOMAIN out.value THEN [pager |-> pg, out |-> Raise("KeyError")]
    ELSE IF "next" \notin DOMAIN out.value
    THEN [pager |-> [pg EXCEPT !.counted = TRUE, !.count = out.value.count],
          out |-> Raise("KeyError")]
    ELSE IF "results" \notin DOMAIN out.value
    THEN [pager |-> Pager_update(pg, out.value), out |-> Raise("KeyError")]
    ELSE [pager |-> Pager_update(pg, out.value), out |-> Return(out.value.results)]

\* BasePagingClient._get_all, one round of the loop from the outcome of its
\* request on: results += response["results"]; url = response.get("next", None)
BasePagingClient_get_all_Overwrites(results, out) ==
    IF out.kind # "return" THEN [results |-> results, url |-> None, out |-> out]
    ELSE [results |-> out.value.results, url |-> out.value.next, out |-> out]

BasePagingClient_get_all(results, out) ==
    IF out.kind # "return" THEN [results |-> results, url |-> None, out |-> out]
    ELSE IF out.null THEN [results |-> results, url |-> None, out |-> Raise("TypeError")]
    ELSE IF "results" \notin DOMAIN out.value
    THEN [results |-> results, url |-> None, out |-> Raise("KeyError")]
    ELSE [results |-> results \o out.value.results,
          url |-> IF "next" \in DOMAIN out.value THEN out.value.next ELSE None,
          out |-> out]

\* _get_all, the request of a later round of the loop: the url of the round
\* before, and `params = {}`
BasePagingClient_get_all_request_KeepsParams(url) ==
    [url |-> url, params |-> pend.params, retry |-> FALSE, retries |-> 0]

BasePagingClient_get_all_request(url) ==
    [url |-> url, params |-> EmptyDict, retry |-> FALSE, retries |-> 0]

\* client.pager(start_page)
NewPager(start_page) ==
    /\ Begin("pager", "done")
    /\ pager' = Pager_init(start_page)
    /\ ghost' = NoHistory
    /\ calls' = 0
    /\ result' = NoResult
    /\ UNCHANGED <<pend, acc, cursorVars>>

\* _get_multiple(endpoint, params, pager) with a pager: _get_page up to its request
GetPage(params) ==
    /\ pager.made /\ calls < MaxCalls
    /\ Begin("page", "http")
    /\ pend' = BasePagingClient_get_page_request(pager, params)
    /\ ghost' = [ghost EXCEPT !.params0 = params, !.before = ghost.fetched,
                              !.prevNext = ghost.lastNext]
    /\ calls' = calls + 1
    /\ result' = NoResult
    /\ UNCHANGED <<acc, cursorVars, pager>>

\* _get_page: the exchange, and the rest of the call
ExchangePage(resp) ==
    /\ op.name = "page" /\ op.pc = "http"
    /\ Issue(resp)
    /\ LET out == BaseClient_request(resp)
           after == BasePagingClient_get_page(pager, out)
       IN  /\ pager' = after.pager
           /\ ghost' = Recorded(out)
           /\ Finish(after.out)
    /\ UNCHANGED <<sleeps, acc, cursorVars, calls, args>>

\* _get_multiple(endpoint, params, None): _get_all up to its first request
\* (_get_all neither reads nor writes a pager: it is followed for callers that
\* have made none)
GetAll(params) ==
    /\ ~pager.made
    /\ Begin("get_all", "http")
    /\ pend' = [url |-> PageEndpointURL, params |-> params, retry |-> FALSE, retries |-> 0]
    /\ acc' = << >>
    /\ ghost' = [NoHistory EXCEPT !.params0 = params]
    /\ result' = NoResult
    /\ UNCHANGED <<cursorVars, pager, calls>>

\* _get_all: one exchange and the round of the loop it belongs to
ExchangeGetAll(resp) ==
    /\ op.name = "get_all" /\ op.pc = "http" /\ Len(reqs) < MaxReqs
    /\ Issue(resp)
    /\ LET out == BaseClient_request(resp)
           after == BasePagingClient_get_all(acc, out)
       IN  /\ acc' = after.results
           /\ IF after.out.kind # "return" THEN Finish(after.out)
              ELSE IF StrTruthy(after.url)
              THEN /\ pend' = BasePagingClient_get_all_request(after.url)
                   /\ UNCHANGED <<op, result>>
              ELSE Finish(Return(after.results))
    /\ UNCHANGED <<sleeps, cursorVars, pager, calls, ghost, args>>

\* BasePagingClient._get_single from the outcome of its request on: the sole
\* element of response["results"], the response itself, or the exception raised
BasePagingClient_get_single_FirstOfMany(from_results, out) ==
    IF out.kind # "return" \/ ~from_results THEN out
    ELSE IF Len(out.value.results) = 0 THEN Raise("TembaNoSuchObjectError")
    ELSE Return(out.value.results[1])

BasePagingClient_get_single(from_results, out) ==
    IF out.kind # "return" THEN out
    ELSE IF ~from_results THEN out
    ELSE IF out.null THEN Raise("TypeError")
    ELSE IF "results" \notin DOMAIN out.value THEN Raise("KeyError")
    ELSE IF Len(out.value.results) > 1 THEN Raise("TembaMultipleResultsError")
    ELSE IF Len(out.value.results) = 0 THEN Raise("TembaNoSuchObjectError")
    ELSE Return(out.value.results[1])

\* _get_single(endpoint, params, from_results), up to its request (_get_single
\* neither reads nor writes a pager: it is followed for callers that have made
\* none)
GetSingle(params, from_results) ==
    /\ ~pager.made
    /\ Call("get_single", "http", [from_results |-> from_results])
    /\ pend' = [url |-> PageEndpointURL, params |-> params, retry |-> FALSE, retries |-> 0]
    /\ acc' = << >>
    /\ ghost' = NoHistory
    /\ result' = NoResult
    /\ UNCHANGED <<cursorVars, pager, calls>>

\* _get_single: the exchange, and the rest of the call
ExchangeSingle(resp) ==
    /\ op.name = "get_single" /\ op.pc = "http"
    /\ Issue(resp)
    /\ Finish(BasePagingClient_get_single(args.from_results, BaseClient_request(resp)))
    /\ UNCHANGED <<sleeps, acc, cursorVars, pager, calls, ghost, args>>

NextPaging ==
    \/ \E n \in {1, 2} : NewPager(n)
    \/ \E p \in ParamChoices : GetPage(p)
    \/ \E resp \in PagingResponses : ExchangePage(resp)
    \/ \E p \in ParamChoices : GetAll(p)
    \/ \E resp \in PagingResponses : ExchangeGetAll(resp)
    \/ \E p \in ParamChoices, f \in BOOLEAN : GetSingle(p, f)
    \/ \E resp \in PagingResponses : ExchangeSingle(resp)

SpecPaging == Init /\ [][NextPaging]_vars

-----------------------------------------------------------------------------
(* The serialization layer: the calls a caller makes on fields and types *)

Kinds == {"Simple", "Boolean", "Integer", "Datetime", "Object", "ObjectList", "ObjectDict"}

\* f = <kind>Field(optional=optional), of item class TestSubType where the
\* variant takes one
FieldOf(kind, optional) ==
    Field(1, "f", kind, None, optional, IF kind \in {"Object", "ObjectList", "ObjectDict"} THEN TestSubType ELSE {})

\* ISO-8601 strings of the wire, in every shape parse_iso8601 accepts
WireDatetimes ==
    { PyStr(<<"2014-01-02">>),
      PyStr(<<"2014-01-02", "T", "03:04:05">>),
      PyStr(<<"2014-01-02", "T", "03:04:05", "Z">>),
      PyStr(<<"2014-01-02", "T", "03:04:05", ".", "000000">>),
      PyStr(<<"2014-01-02", "T", "03:04:05", ".", "671", "Z">>),
      PyStr(<<"2014-01-02", "T", "03:04:05", ".", "671000", "Z">>) }

Datetimes ==
    { PyDatetime("2014-01-02", "00:00:00", 0),
      PyDatetime("2014-01-02", "03:04:05", 0),
      PyDatetime("2014-01-02", "03:04:05", 671000) }

\* values that are no container
Scalars ==
    { PyNone, PyBool(TRUE), PyBool(FALSE), PyInteger(0), PyInteger(1), PyFloat("1.5"),
      PyStr(<< >>), PyStr(<<"x">>) }

\* TestSubType on the wire and as an instance
SubItems == { PyDict([zed |-> PyStr(<<"b">>)]), PyDict([zed |-> PyInteger(1)]) }
SubObjects ==
    { PyObject(TestSubType, [zed |-> PyStr(<<"b">>)]),
      PyObject(TestSubType, [zed |-> PyInteger(1)]) }

\* lists and dicts of the members of a set of two
ListsOf(S) ==
    { PyList(<< >>) } \cup { PyList(<<x>>) : x \in S } \cup { PyList(<<x, y>>) : x, y \in S }
DictsOf(S) ==
    { PyDict(EmptyDict) } \cup { PyDict([a |-> x]) : x \in S }
    \cup { PyDict([a |-> x, b |-> y]) : x, y \in S }

\* the wire values a field of a variant is given to deserialize
WireInputs(kind) ==
    CASE kind = "Object" -> {PyNone, PyDict(EmptyDict)} \cup SubItems
      [] kind = "ObjectList" -> Scalars \cup ListsOf(SubItems) \cup {PyDict(EmptyDict)}
      [] kind = "ObjectDict" -> Scalars \cup DictsOf(SubItems) \cup {PyList(<< >>)}
      [] OTHER -> Scalars \cup WireDatetimes \cup {PyList(<< >>), PyDict(EmptyDict)}

\* the values a field of a variant is given to serialize
ValueInputs(kind) ==
    CASE kind = "Datetime" -> {PyNone} \cup Datetimes
      [] kind = "Object" -> {PyNone} \cup SubObjects
      [] kind = "ObjectList" -> Scalars \cup ListsOf(SubObjects) \cup {PyDict(EmptyDict)}
      [] kind = "ObjectDict" -> Scalars \cup DictsOf(SubObjects) \cup {PyList(<< >>)}
      [] OTHER -> Scalars \cup {PyList(<< >>), PyDict(EmptyDict)}

\* the kwargs of a create call: some of the names, each with one of the values
KwargsOf(names, values) == UNION { [chosen -> values] : chosen \in SUBSET names }

CreateCalls ==
    { [clazz |-> TestType, kwargs |-> k] :
        k \in KwargsOf({"foo", "bar", "doh", "xyz"},
                       {PyStr(<<"a">>), PyInteger(123)}) }
    \cup { [clazz |-> RuleSet, kwargs |-> k] :
             k \in KwargsOf({"uuid", "node"}, {PyStr(<<"n1">>)}) }

\* a conversion's outcome as the outcome of a call
Outcome(r) == IF r.raised THEN Raise(r.exc) ELSE Return(r.value)

\* what a call that issues no request leaves alone
idleVars == <<pend, acc, query, iter, heap, pager, calls, ghost>>

\* Type.create(**kwargs)
Create(clazz, kwargs) ==
    /\ Call("create", "done", [clazz |-> clazz, kwargs |-> kwargs])
    /\ result' = TembaObject_create(clazz, kwargs)
    /\ UNCHANGED idleVars

\* Type.deserialize(item), for a type of one field
Deserialize(kind, optional, item) ==
    /\ Call("deserialize", "done", [kind |-> kind, optional |-> optional, item |-> item])
    /\ LET made == TembaObject_deserialize({FieldOf(kind, optional)}, item) IN
       result' = IF made.raised THEN Raise(made.exc)
                 ELSE Return(PyObject({FieldOf(kind, optional)}, made.value))
    /\ UNCHANGED idleVars

\* field.deserialize(value)
FieldDeserialize(kind, value) ==
    /\ Call("field_deserialize", "done", [kind |-> kind, value |-> value])
    /\ result' = Outcome(TembaField_deserialize(FieldOf(kind, FALSE), value))
    /\ UNCHANGED idleVars

\* field.serialize(value)
FieldSerialize(kind, value) ==
    /\ Call("field_serialize", "done", [kind |-> kind, value |-> value])
    /\ result' = Outcome(TembaField_serialize(FieldOf(kind, FALSE), value))
    /\ UNCHANGED idleVars

\* field.deserialize(field.serialize(value))
ValueRoundTrip(kind, value) ==
    /\ Call("value_round_trip", "done", [kind |-> kind, value |-> value])
    /\ LET wire == TembaField_serialize(FieldOf(kind, FALSE), value) IN
       result' = IF wire.raised THEN Raise(wire.exc)
                 ELSE Outcome(TembaField_deserialize(FieldOf(kind, FALSE), wire.value))
    /\ UNCHANGED idleVars

\* field.serialize(field.deserialize(raw))
WireRoundTrip(kind, raw) ==
    /\ Call("wire_round_trip", "done", [kind |-> kind, value |-> raw])
    /\ LET made == TembaField_deserialize(FieldOf(kind, FALSE), raw) IN
       result' = IF made.raised THEN Raise(made.exc)
                 ELSE Outcome(TembaField_serialize(FieldOf(kind, FALSE), made.value))
    /\ UNCHANGED idleVars

NextSerialization ==
    \/ \E c \in CreateCalls : Create(c.clazz, c.kwargs)
    \/ \E k \in Kinds, o \in BOOLEAN :
          \E item \in {EmptyDict} \cup {[f |-> v] : v \in WireInputs(k)} :
             Deserialize(k, o, item)
    \/ \E k \in Kinds : \E v \in WireInputs(k) : FieldDeserialize(k, v)
    \/ \E k \in Kinds : \E v \in ValueInputs(k) : FieldSerialize(k, v)
    \/ \E k \in Kinds : \E v \in ValueInputs(k) : ValueRoundTrip(k, v)
    \/ \E k \in Kinds : \E v \in WireInputs(k) : WireRoundTrip(k, v)

SpecSerialization == Init /\ [][NextSerialization]_vars

-----------------------------------------------------------------------------
(* BaseClient._build_params, _build_id_param, and the writes that use them *)

\* the elements of a list or a tuple
Elements(value) == IF value.t = "list" THEN value.items ELSE value.elems

\* _serialize_value, the TembaObject branch: value.uuid, else value.id, else
\* value.key, by hasattr; with none of them the function falls off its end
\* and returns None
ResolveIdentifier_IdFirst(value) ==
    IF "id" \in DOMAIN value.attrs THEN value.attrs["id"]
    ELSE IF "uuid" \in DOMAIN value.attrs THEN value.attrs["uuid"]
    ELSE IF "key" \in DOMAIN value.attrs THEN value.attrs["key"]
    ELSE PyNone

ResolveIdentifier(value) ==
    IF "uuid" \in DOMAIN value.attrs THEN value.attrs["uuid"]
    ELSE IF "id" \in DOMAIN value.attrs THEN value.attrs["id"]
    ELSE IF "key" \in DOMAIN value.attrs THEN value.attrs["key"]
    ELSE PyNone

\* BaseClient._serialize_value
RECURSIVE BaseClient_serialize_value(_)
BaseClient_serialize_value(value) ==
    IF value.t = "list" \/ value.t = "tuple"
    THEN PyList([i \in 1..Len(Elements(value)) |->
                    BaseClient_serialize_value(Elements(value)[i])])
    ELSE IF value.t = "object" THEN ResolveIdentifier(value)
    ELSE IF value.t = "datetime" THEN format_iso8601(value).value
    ELSE IF value.t = "bool" THEN PyInteger(IF value.b THEN 1 ELSE 0)
    ELSE value

\* BaseClient._build_params
BaseClient_build_params_DropsFalsy(kwargs) ==
    [kwarg \in {k \in DOMAIN kwargs : PyTruthy(kwargs[k])} |->
        BaseClient_serialize_value(kwargs[kwarg])]

BaseClient_build_params(kwargs) ==
    [kwarg \in {k \in DOMAIN kwargs : kwargs[k].t # "NoneType"} |->
        BaseClient_serialize_value(kwargs[kwarg])]

\* the place of an identifying attribute in the declaration of a type
AttrPos(attr) ==
    CASE attr = "uuid" -> 1
      [] attr = "id" -> 2
      [] attr = "key" -> 3
      [] attr = "name" -> 4

\* a type that declares the given attributes, and the instance of it that
\* create(**attrs) makes
Ref(attrs) ==
    PyObject({ Field(AttrPos(a), a, "Simple", None, FALSE, {}) : a \in DOMAIN attrs }, attrs)

\* the values a caller passes to _build_params
ParamObjects ==
    { Ref([uuid |-> PyStr(<<"u1">>), id |-> PyInteger(1001), key |-> PyStr(<<"k1">>)]),
      Ref([uuid |-> PyNone, id |-> PyInteger(1001)]),
      Ref([uuid |-> PyStr(<<"u1">>), name |-> PyStr(<<"x">>)]),
      Ref([id |-> PyInteger(1001), key |-> PyStr(<<"k1">>)]),
      Ref([id |-> PyInteger(1001)]),
      Ref([key |-> PyStr(<<"k1">>), name |-> PyStr(<<"x">>)]),
      Ref([name |-> PyStr(<<"x">>)]) }

ParamValues ==
    { PyNone, PyBool(TRUE), PyBool(FALSE), PyInteger(0), PyInteger(1002), PyFloat("1.5"),
      PyStr(<< >>), PyStr(<<"x">>),
      PyDatetime("2014-01-02", "03:04:05", 671000),
      PyList(<< >>), PyTuple(<< >>),
      PyList(<<PyBool(TRUE), PyNone, PyStr(<<"x">>)>>),
      PyTuple(<<PyInteger(0), PyBool(FALSE)>>),
      PyList(<<PyTuple(<<PyBool(TRUE)>>), PyInteger(0)>>),
      PyList(<<Ref([id |-> PyInteger(1001)]), PyInteger(1002)>>),
      PyTuple(<<Ref([key |-> PyStr(<<"k1">>), name |-> PyStr(<<"x">>)]),
                Ref([uuid |-> PyStr(<<"u1">>), id |-> PyInteger(1001), key |-> PyStr(<<"k1">>)])>>) }
    \cup ParamObjects

\* client._build_params(**kwargs); the call has no request to issue
BuildParams(kwargs) ==
    /\ Call("build_params", "done", [kwargs |-> kwargs])
    /\ result' = Return(BaseClient_build_params(kwargs))
    /\ pend' = NoRequest
    /\ UNCHANGED <<acc, cursorVars, pager, calls, ghost>>

\* BaseClient._build_id_param
BaseClient_build_id_param_AtMostOne(kwargs) ==
    LET params == BaseClient_build_params(kwargs) IN
    IF Cardinality(DOMAIN params) > 1 THEN Raise("ValueError") ELSE Return(params)

BaseClient_build_id_param(kwargs) ==
    LET params == BaseClient_build_params(kwargs) IN
    IF Cardinality(DOMAIN params) # 1 THEN Raise("ValueError") ELSE Return(params)

\* client._build_id_param(**kwargs)
BuildIdParam(kwargs) ==
    /\ Call("build_id_param", "done", [kwargs |-> kwargs])
    /\ result' = BaseClient_build_id_param(kwargs)
    /\ pend' = NoRequest
    /\ UNCHANGED <<acc, cursorVars, pager, calls, ghost>>

\* the type of a label, and what the server of a written endpoint answers
Label ==
    { Field(1, "uuid", "Simple", None, FALSE, {}),
      Field(2, "name", "Simple", None, FALSE, {}),
      Field(3, "count", "Integer", None, FALSE, {}) }

WriteResponses ==
    { HttpResponse(201, JsonBody([uuid |-> PyStr(<<"u1">>), name |-> PyStr(<<"Important">>),
                                  count |-> PyInteger(0)]), None),
      HttpResponse(201, JsonBody([uuid |-> PyStr(<<"u1">>)]), None),
      HttpResponse(204, EmptyBody, None), HttpResponse(404, EmptyBody, None),
      HttpResponse(429, EmptyBody, "1"), TransportFailure("ConnectionError") }

\* the identifying argument of a delete or an update: null, a UUID, a URN, or
\* a typed object
IdentifierChoices ==
    { PyNone, PyStr(<<"u1">>), PyStr(<<"tel", ":", "+250973635665">>) } \cup ParamObjects

\* a write call up to its request: with the identifying params built the
\* request is pending, and a ValueError of _build_id_param ends the call
Write(name, a, url, params) ==
    /\ Call(name, IF params.kind = "return" THEN "http" ELSE "done", a)
    /\ IF params.kind = "return"
       THEN /\ pend' = [url |-> url, params |-> params.value, retry |-> FALSE, retries |-> 0]
            /\ result' = NoResult
       ELSE /\ pend' = NoRequest
            /\ result' = params
    /\ UNCHANGED <<acc, cursorVars, pager, calls, ghost>>

\* client.delete_contact(contact), up to the request of _delete; a URN is
\* told by isinstance(contact, str) and ":" in contact
DeleteContact(contact) ==
    Write("delete_contact", [contact |-> contact],
          "https://example.com/api/v2/contacts.json",
          BaseClient_build_id_param(IF contact.t = "str" /\ Contains(contact.chars, ":")
                                    THEN [urn |-> contact]
                                    ELSE [uuid |-> contact]))

\* _delete: the exchange; the parsed response is dropped
ExchangeDelete(resp) ==
    /\ op.name = "delete_contact" /\ op.pc = "http"
    /\ Issue(resp)
    /\ LET out == BaseClient_request(resp) IN
       Finish(IF out.kind = "return" THEN ReturnNone ELSE out)
    /\ UNCHANGED <<sleeps, acc, cursorVars, pager, calls, ghost, args>>

\* client.update_label(label, name), up to the request of _post: the params
\* are _build_id_param(uuid=label), the body is _build_params(name=name)
UpdateLabel(label, name) ==
    Write("update_label", [label |-> label, name |-> name],
          "https://example.com/api/v2/labels.json",
          BaseClient_build_id_param([uuid |-> label]))

\* Label.deserialize of the parsed response of _post
Label_deserialize(out) ==
    IF out.kind # "return" THEN out
    ELSE IF out.null THEN Raise("TypeError")
    ELSE LET label == TembaObject_deserialize(Label, out.value) IN
         IF label.raised THEN Raise(label.exc) ELSE Return(PyObject(Label, label.value))

\* _post: the exchange, and Label.deserialize of what it returns
ExchangeUpdate(resp) ==
    /\ op.name = "update_label" /\ op.pc = "http"
    /\ Issue(resp)
    /\ Finish(Label_deserialize(BaseClient_request(resp)))
    /\ UNCHANGED <<sleeps, acc, cursorVars, pager, calls, ghost, args>>

NextParams ==
    \/ \E kwargs \in KwargsOf({"a", "b"}, ParamValues) : BuildParams(kwargs)
    \/ \E kwargs \in KwargsOf({"a", "b"}, ParamValues) : BuildIdParam(kwargs)
    \/ \E contact \in IdentifierChoices : DeleteContact(contact)
    \/ \E resp \in WriteResponses : ExchangeDelete(resp)
    \/ \E label \in IdentifierChoices, name \in {PyNone, PyStr(<<"Important">>)} :
          UpdateLabel(label, name)
    \/ \E resp \in WriteResponses : ExchangeUpdate(resp)

SpecParams == Init /\ [][NextParams]_vars

-----------------------------------------------------------------------------
(* Construction of a client: the root URL and the headers *)

\* A host string is the sequence of its pieces: a scheme, a name, path
\* segments, a slash.
\* host.startswith("http") / host.endswith("/")
StartsWithHttp(host) == host # << >> /\ host[1] \in {"http://", "https://", "http"}
EndsWithSlash(host) == host # << >> /\ Last(host) = "/"

\* host[:-1] of a host whose last piece is the one character "/"
DropLast(host) == SubSeq(host, 1, Len(host) - 1)

\* "%d" % api_version
Decimal(n) ==
    CASE n = 1 -> "1"
      [] n = 2 -> "2"
      [] n = 3 -> "3"

\* BaseClient._headers, with CLIENT_NAME = "rapidpro-python"
BaseClient_headers(token, user_agent) ==
    [h \in {"Content-type", "Accept", "Authorization", "User-Agent"} |->
        CASE h = "Content-type" -> <<"application/json">>
          [] h = "Accept" -> <<"application/json">>
          [] h = "Authorization" -> <<"Token ", token>>
          [] h = "User-Agent" ->
                IF StrTruthy(user_agent)
                THEN <<user_agent, " ", "rapidpro-python", "/", "__version__">>
                ELSE <<"rapidpro-python", "/", "__version__">>]

\* BaseClient.__init__: the root URL
BaseClient_root_url(host, api_version) ==
    LET host_url == IF StartsWithHttp(host)
                    THEN IF EndsWithSlash(host) THEN DropLast(host) ELSE host
                    ELSE <<"https://">> \o host
    IN  host_url \o <<"/api/v", Decimal(api_version)>>

\* AbstractTembaClient.__init__ (the v1 client): the root URL
AbstractTembaClient_root_url(host) ==
    IF StartsWithHttp(host)
    THEN IF EndsWithSlash(host) THEN DropLast(host) ELSE host
    ELSE <<"https://">> \o host \o <<"/api/v", "1">>

\* the hosts a caller constructs a client with: a bare host name or a URL,
\* with or without a path, with no, one or two trailing slashes
HostChoices ==
    { scheme \o name \o path \o slashes :
        scheme \in { << >>, <<"http://">>, <<"https://">> },
        name \in { <<"example.com">>, <<"http", "bin.org">> },
        path \in { << >>, <<"/api/v", "1">>, <<"/api/v", "2">> },
        slashes \in { << >>, <<"/">>, <<"/", "/">> } }

\* BaseClient(host, token, api_version, user_agent, verify_ssl)
NewBaseClient(host, api_version, user_agent, verify_ssl) ==
    /\ Call("BaseClient", "done",
            [host |-> host, api_version |-> api_version, user_agent |-> user_agent])
    /\ result' = Return([root_url |-> BaseClient_root_url(host, api_version),
                         headers |-> BaseClient_headers("1234567890", user_agent),
                         verify_ssl |-> verify_ssl])
    /\ UNCHANGED idleVars

\* AbstractTembaClient(host, token, user_agent), whose API version is 1
NewAbstractTembaClient(host, user_agent) ==
    /\ Call("AbstractTembaClient", "done",
            [host |-> host, api_version |-> 1, user_agent |-> user_agent])
    /\ result' = Return([root_url |-> AbstractTembaClient_root_url(host),
                         headers |-> BaseClient_headers("1234567890", user_agent),
                         verify_ssl |-> None])
    /\ UNCHANGED idleVars

NextClient ==
    \/ \E host \in HostChoices, n \in {1, 2}, ua \in { None, "test/0.1" },
          v \in { None, "False", "ca-bundle.pem" } :
          NewBaseClient(host, n, ua, v)
    \/ \E host \in HostChoices, ua \in { None, "test/0.1" } : NewAbstractTembaClient(host, ua)

SpecClient == Init /\ [][NextClient]_vars

-----------------------------------------------------------------------------
(* Claims about the request engine, checked under Spec *)

\* a 429 whose Retry-After header is a positive number of seconds
Positive429(resp) ==
    /\ resp.exc = "none" /\ resp.status = 429
    /\ resp.retry_after \in IntLiterals /\ PyInt(resp.retry_after) > 0

\* a 429 that carries no Retry-After header
NoHeader429(resp) == resp.exc = "none" /\ resp.status = 429 /\ resp.retry_after = None

\* a 200 with a JSON body
Json200(resp) == resp.exc = "none" /\ resp.status = 200 /\ resp.content.kind = "json"

\* a response that is a failure: no response at all, or a 4xx / 5xx status
Failure(resp) == resp.exc # "none" \/ (400 <= resp.status /\ resp.status <= 599)

RetryingCall == op.name = "raw" /\ pend.retry

\* C1: a request made with retry_on_rate_exceed=true against a server that
\* answers 429 with a positive Retry-After k times and then 200 returns the
\* parsed result after k+1 requests and k sleeps when k <= 4, each sleep lasting
\* the Retry-After of the 429 just received; after a fifth 429 in a row the
\* call raises Rate Exceeded, and no call ever issues a sixth request.
C1_RetryBound ==
    RetryingCall =>
        /\ Len(reqs) <= 5
        /\ \A i \in 1..Len(sleeps) :
              /\ Positive429(reqs[i].resp)
              /\ sleeps[i] = PyInt(reqs[i].resp.retry_after)
        /\ ( /\ Len(reqs) > 0
             /\ \A i \in 1..(Len(reqs) - 1) : Positive429(reqs[i].resp)
             /\ Json200(Last(reqs).resp) )
           => /\ op.pc = "done"
              /\ result = Return(Last(reqs).resp.content.doc)
              /\ Len(reqs) - 1 <= 4
              /\ Len(sleeps) = Len(reqs) - 1
        /\ (\A i \in 1..Len(reqs) : Positive429(reqs[i].resp))
           => IF Len(reqs) < 5
              THEN op.pc = "http" /\ Len(sleeps) = Len(reqs)
              ELSE /\ op.pc = "done" /\ Len(reqs) = 5
                   /\ result.kind = "TembaRateExceededError"

\* C1, its case: five 429 in a row, four sleeps of differing lengths, then the raise
C1_Witness ==
    /\ RetryingCall /\ op.pc = "done"
    /\ Len(reqs) = 5 /\ \A i \in 1..5 : Positive429(reqs[i].resp)
    /\ sleeps = <<1, 2, 2, 1>>
    /\ result = RaiseRateExceeded(2)

C3_NoOtherRetry ==
    op.name = "raw" =>
        \A i \in 1..Len(reqs) :
            LET resp == reqs[i].resp IN
            (Failure(resp) /\ (~pend.retry \/ resp.exc # "none" \/ resp.status # 429)) =>
                /\ i = Len(reqs) /\ op.pc = "done"
                /\ result.kind \notin {"return", "pending"}
                /\ Len(sleeps) = i - 1
                /\ ~pend.retry => (i = 1 /\ sleeps = << >>)

\* C3, its case: without the flag a 429 with Retry-After 1 is raised at once
C3_Witness ==
    /\ op.name = "raw" /\ ~pend.retry /\ op.pc = "done"
    /\ Len(reqs) = 1 /\ Positive429(reqs[1].resp)
    /\ sleeps = << >>
    /\ result = RaiseRateExceeded(1)

\* the outcome the classification of C4 gives a response, if it gives one
C4_Classified(resp, out) ==
    \/ /\ resp.exc # "none"
       /\ out = Raise("TembaConnectionError")
    \/ /\ resp.exc = "none" /\ resp.status = 400
       /\ out.kind = "TembaBadRequestError"
       /\ IF resp.content.kind = "json"
          THEN out.value = resp.content.doc
          ELSE out.value = PyDict([details |-> PyList(<<PyStr(<<resp.content.text>>)>>)])
    \/ /\ resp.exc = "none" /\ resp.status = 403
       /\ out = Raise("TembaTokenError")
    \/ /\ resp.exc = "none" /\ resp.status = 404
       /\ out = Raise("TembaNoSuchObjectError")
    \/ /\ resp.exc = "none" /\ resp.status = 429
       /\ out.kind = "TembaRateExceededError"
       /\ resp.retry_after = None => out.retry_after = 0
       /\ resp.retry_after \in IntLiterals => out.retry_after = PyInt(resp.retry_after)
    \/ /\ resp.exc = "none" /\ resp.status \notin {400, 403, 404, 429}
       /\ 400 <= resp.status /\ resp.status <= 599
       /\ out.kind = "TembaHttpError"
    \/ /\ resp.exc = "none" /\ 200 <= resp.status /\ resp.status <= 299
       /\ resp.content.kind = "json"
       /\ out.kind = "return" /\ ~out.null /\ out.value = resp.content.doc
    \/ /\ resp.exc = "none" /\ 200 <= resp.status /\ resp.status <= 299
       /\ resp.content.kind = "empty"
       /\ out = ReturnNone

\* C4: the outcome of every call of request() is one of: Bad Request with the
\* parsed body (or the raw text as single detail) for 400, Authentication
\* failure for 403, Not found for 404, Rate Exceeded with the Retry-After
\* value (0 without the header) for 429, Generic HTTP failure for any other
\* 4xx/5xx, Connection failure for a transport exception, the parsed JSON for
\* a 2xx with a body and null for a 2xx without one.
C4_Classification ==
    (op.name = "raw" /\ op.pc = "done") => C4_Classified(Last(reqs).resp, result)

\* C5: no response with a status outside 2xx is returned as a success, and
\* every such status other than 400, 403, 404 and 429 gives a Generic HTTP
\* failure, the 1xx and 3xx statuses included.
C5_Non2xxNeverSucceeds ==
    (op.name = "raw" /\ op.pc = "done") =>
        LET resp == Last(reqs).resp IN
        (resp.exc = "none" /\ ~(200 <= resp.status /\ resp.status <= 299)) =>
            /\ result.kind # "return"
            /\ resp.status \notin {400, 403, 404, 429} => result.kind = "TembaHttpError"

\* the kinds of the error taxonomy
TaxonomyKinds ==
    { "TembaConnectionError", "TembaBadRequestError", "TembaTokenError",
      "TembaNoSuchObjectError", "TembaMultipleResultsError", "TembaRateExceededError",
      "TembaHttpError", "TembaSerializationException" }

\* C6: a call of request() that fails raises one of the kinds of the error
\* taxonomy, whatever the response.
C6_OnlyTaxonomyKinds ==
    (op.name = "raw" /\ op.pc = "done" /\ result.kind # "return") =>
        result.kind \in TaxonomyKinds

-----------------------------------------------------------------------------
(* Claims about the cursor engine, checked under SpecCursor *)

\* the typed object a well-formed wire item stands for
ExpectedObject(item) ==
    [uuid |-> item.node, label |-> item.label, response_type |-> item.response_type]

\* a 200 whose body is a page of well-formed items
GoodPage(resp) ==
    /\ resp.exc = "none" /\ resp.status = 200 /\ resp.content.kind = "json"
    /\ \A i \in 1..Len(resp.content.doc.results) :
          DOMAIN resp.content.doc.results[i] = {"node", "label", "response_type"}

PageResults(r) == r.resp.content.doc.results
PageNext(r) == r.resp.content.doc.next

\* the items of the pages served, page after page
RECURSIVE Concatenated(_)
Concatenated(served) ==
    IF served = << >> THEN << >>
    ELSE Concatenated(SubSeq(served, 1, Len(served) - 1))
         \o [i \in 1..Len(PageResults(Last(served))) |->
                ExpectedObject(PageResults(Last(served))[i])]

\* C7: when the server serves pages, all() goes on exactly as long as the
\* page just served is non-empty and carries a next URL, each request going
\* to the next URL of the page before; on the first page with next = null,
\* or with zero results, it stops without a further request and returns the
\* deserialized items of all pages served, concatenated in order, nothing
\* dropped, duplicated or reordered.
C7_CursorWalk ==
    (op.name = "all" /\ \A i \in 1..Len(reqs) : GoodPage(reqs[i].resp)) =>
        /\ \A i \in 1..(Len(reqs) - 1) :
              /\ PageNext(reqs[i]) # None /\ PageResults(reqs[i]) # << >>
              /\ reqs[i + 1].url = PageNext(reqs[i])
        /\ IF Len(reqs) > 0
              /\ (PageNext(Last(reqs)) = None \/ PageResults(Last(reqs)) = << >>)
           THEN op.pc = "done" /\ result = Return(Concatenated(reqs))
           ELSE op.pc = "http"

\* C7, its case: a walk of three pages, with an item that recurs
C7_Witness ==
    /\ op.name = "all" /\ op.pc = "done" /\ Len(reqs) = 3
    /\ \A i \in 1..3 : GoodPage(reqs[i].resp)
    /\ PageResults(reqs[1]) = <<Item2, Item1>>
    /\ PageResults(reqs[2]) = <<Item1, Item1>>
    /\ PageResults(reqs[3]) = <<Item1>> /\ PageNext(reqs[3]) = None
    /\ result.kind = "return" /\ Len(result.value) = 5

\* the iterator was made with a resume cursor
Resuming == StrTruthy(ghost.cursor0)

\* C8: in an iteration started with iterfetches(resume_cursor=C) the first
\* fetch goes to the endpoint URL with the params of the query plus cursor=C;
\* once a fetch has completed the pending resume cursor is cleared, and every
\* later fetch goes to the next URL of the response before, with no params
\* (so without cursor=C).
C8_ResumeCursorOnce ==
    (op.name = "next" /\ Resuming) =>
        /\ \A i \in 1..Len(reqs) :
              IF ghost.before = 0
              THEN /\ reqs[i].url = EndpointURL
                   /\ reqs[i].params = DictSet(ghost.params0, "cursor", ghost.cursor0)
              ELSE /\ reqs[i].url = ghost.prevNext
                   /\ reqs[i].params = EmptyDict
        /\ ghost.fetched = 0 => iter.resume_cursor = ghost.cursor0
        /\ ghost.fetched > 0 => iter.resume_cursor = None

\* C8, its case: the second fetch of a resumed iteration has been made
C8_Witness ==
    /\ op.name = "next" /\ op.pc = "done" /\ Resuming
    /\ ghost.before = 1 /\ ghost.fetched = 2
    /\ Len(reqs) = 1 /\ reqs[1].url = NextURL1 /\ reqs[1].params = EmptyDict
    /\ result.kind = "return"

-----------------------------------------------------------------------------
(* Claims about page based access, checked under SpecPaging *)

\* a 200 whose body is a page
Page(resp) == resp.exc = "none" /\ resp.status = 200 /\ resp.content.kind = "json"

\* the results arrays of the pages served, page after page
RECURSIVE ResultsConcatenated(_)
ResultsConcatenated(served) ==
    IF served = << >> THEN << >>
    ELSE ResultsConcatenated(SubSeq(served, 1, Len(served) - 1))
         \o PageResults(Last(served))

\* C9: when the server serves pages, _get_all goes on exactly as long as the
\* page just served carries a next URL; on the first page with next = null
\* (page K) it stops, having issued K requests, and returns the results
\* arrays of the K pages concatenated in page order.
C9_PageWalk ==
    (op.name = "get_all" /\ \A i \in 1..Len(reqs) : Page(reqs[i].resp)) =>
        /\ \A i \in 1..(Len(reqs) - 1) :
              /\ PageNext(reqs[i]) # None
              /\ reqs[i + 1].url = PageNext(reqs[i])
        /\ IF Len(reqs) > 0 /\ PageNext(Last(reqs)) = None
           THEN op.pc = "done" /\ result = Return(ResultsConcatenated(reqs))
           ELSE op.pc = "http"

\* C9, its case: the walk of three pages, one of them empty
C9_Witness ==
    /\ op.name = "get_all" /\ op.pc = "done" /\ Len(reqs) = 3
    /\ \A i \in 1..3 : Page(reqs[i].resp)
    /\ PageResults(reqs[1]) = <<Item2, Item1>> /\ PageNext(reqs[1]) = PageURL2
    /\ PageResults(reqs[2]) = << >> /\ PageNext(reqs[2]) = PageURL3
    /\ PageResults(reqs[3]) = <<Item1>> /\ PageNext(reqs[3]) = None
    /\ result = Return(<<Item2, Item1, Item1>>)

\* C10: a paged call issues exactly one request.  Until a call with the pager
\* has succeeded, that request goes to the endpoint URL with the caller's
\* params, and with page=N exactly when the start page N is not 1.  After a
\* successful call the pager's total is the count of the response and
\* has_more() is true exactly when its next is non-null.  A later call made
\* while has_more() is true goes to the stored next URL with no params.
C10_PagerProtocol ==
    op.name = "page" =>
        /\ Len(reqs) <= 1
        /\ op.pc = "done" => Len(reqs) = 1
        /\ \A i \in 1..Len(reqs) :
              /\ ghost.before = 0 =>
                    /\ reqs[i].url = PageEndpointURL
                    /\ ("page" \in DOMAIN reqs[i].params) <=> (pager.start_page # 1)
                    /\ pager.start_page # 1 => reqs[i].params.page = pager.start_page
                    /\ \A k \in DOMAIN ghost.params0 :
                          k \in DOMAIN reqs[i].params /\ reqs[i].params[k] = ghost.params0[k]
                    /\ DOMAIN reqs[i].params \subseteq DOMAIN ghost.params0 \cup {"page"}
              /\ (ghost.before > 0 /\ ghost.prevNext # None) =>
                    /\ reqs[i].url = ghost.prevNext
                    /\ reqs[i].params = EmptyDict
        /\ (op.pc = "done" /\ result.kind = "return") =>
              /\ pager.counted /\ pager.count = Last(reqs).resp.content.doc.count
              /\ Pager_has_more(pager) <=> (PageNext(Last(reqs)) # None)

\* C10, its case: the second call with a pager of start page 2, to the next
\* URL that the first call stored
C10_Witness ==
    /\ op.name = "page" /\ op.pc = "done" /\ pager.start_page = 2
    /\ ghost.before = 1 /\ ghost.prevNext = PageURL3
    /\ Len(reqs) = 1 /\ reqs[1].url = PageURL3 /\ reqs[1].params = EmptyDict
    /\ result.kind = "return" /\ pager.count = 21 /\ ~Pager_has_more(pager)

\* C11: _get_single issues exactly one request.  When that request is answered
\* by a page, the call with from_results=true returns the sole element of the
\* results array when it has one item, raises Not found when it has none and
\* Multiple results when it has more than one; the call with
\* from_results=false returns the response object itself.
C11_SingleFetch ==
    op.name = "get_single" =>
        /\ Len(reqs) = IF op.pc = "done" THEN 1 ELSE 0
        /\ (op.pc = "done" /\ Page(reqs[1].resp)) =>
              LET doc == reqs[1].resp.content.doc IN
              IF args.from_results
              THEN /\ Len(doc.results) = 1 =>
                         /\ result.kind = "return" /\ ~result.null
                         /\ result.value = doc.results[1]
                   /\ Len(doc.results) = 0 => result.kind = "TembaNoSuchObjectError"
                   /\ Len(doc.results) > 1 => result.kind = "TembaMultipleResultsError"
              ELSE /\ result.kind = "return" /\ ~result.null
                   /\ result.value = doc

\* C11, its case: a results array of two items makes the fetch raise
C11_Witness ==
    /\ op.name = "get_single" /\ op.pc = "done" /\ args.from_results
    /\ Len(reqs) = 1 /\ Page(reqs[1].resp)
    /\ PageResults(reqs[1]) = <<Item2, Item1>>
    /\ result.kind = "TembaMultipleResultsError"

\* C12: first() makes one fetch, the first of a fresh iteration: its requests
\* go to the endpoint URL with the params of the query, only a rate-limited
\* request is repeated, and the first response that is a page ends the call;
\* the call then returns the first element of that page, deserialized, or null
\* when the page has zero results.
C12_FirstFetch ==
    op.name = "first" =>
        /\ \A i \in 1..Len(reqs) :
              /\ reqs[i].url = EndpointURL
              /\ reqs[i].params = ghost.params0
              /\ i < Len(reqs) => reqs[i].resp.status = 429
        /\ ~pend.retry => Len(reqs) <= 1
        /\ (Len(reqs) > 0 /\ GoodPage(Last(reqs).resp)) =>
              /\ op.pc = "done"
              /\ IF PageResults(Last(reqs)) = << >>
                 THEN result = ReturnNone
                 ELSE /\ result.kind = "return" /\ ~result.null
                      /\ result.value = ExpectedObject(PageResults(Last(reqs))[1])

\* C12, its case: first() on a page of two items, with more pages to come
C12_Witness ==
    /\ op.name = "first" /\ op.pc = "done" /\ Len(reqs) = 1
    /\ GoodPage(reqs[1].resp)
    /\ PageResults(reqs[1]) = <<Item2, Item1>> /\ PageNext(reqs[1]) = NextURL1
    /\ result.kind = "return" /\ ~result.null
    /\ result.value = ExpectedObject(Item2)

\* the cursor that a next URL of the server carries, decoded
CursorOf(url) ==
    CASE url = NextURL1 -> "c1="
      [] url = NextURL2 -> "c2"

\* C13: get_cursor() returns null on an iterator that has not fetched yet;
\* after a successful fetch it returns the decoded cursor parameter of the
\* next URL of that response, and null when that response had no next URL;
\* the call issues no request and leaves the iterator, its params and the
\* query as they were.
C13_GetCursor ==
    /\ [](op.name = "get_cursor" =>
            /\ reqs = << >>
            /\ result = IF ghost.fetched = 0 \/ ghost.lastNext = None
                        THEN ReturnNone
                        ELSE Return(CursorOf(ghost.lastNext)))
    /\ [][op'.name = "get_cursor" => UNCHANGED <<iter, heap, query>>]_vars

\* C13, its case: the cursor after a fetch whose next URL holds an encoded cursor
C13_Witness ==
    /\ op.name = "get_cursor" /\ ghost.fetched = 1 /\ ghost.lastNext = NextURL1
    /\ iter.url = NextURL1
    /\ result = Return("c1=")

-----------------------------------------------------------------------------
(* Claims about the serialization layer, checked under SpecSerialization *)

\* the attributes that the types of the create calls declare
DeclaredAttrs(clazz) ==
    IF clazz = TestType THEN {"foo", "bar", "doh", "hum"}
    ELSE {"uuid", "label", "response_type"}

\* C14: create(**kwargs) with only declared names returns an instance whose
\* attributes are exactly the declared ones, each holding the kwarg as given
\* (no conversion by the field) or null when not given; with any name that is
\* not declared it raises ValueError and returns nothing.
C14_Create ==
    op.name = "create" =>
        LET declared == DeclaredAttrs(args.clazz) IN
        IF DOMAIN args.kwargs \subseteq declared
        THEN /\ result.kind = "return"
             /\ DOMAIN result.value.attrs = declared
             /\ \A a \in declared :
                   result.value.attrs[a] =
                       IF a \in DOMAIN args.kwargs THEN args.kwargs[a] ELSE PyNone
        ELSE result.kind = "ValueError"

\* C14, its case: a string given for the IntegerField bar is stored as given
C14_Witness ==
    /\ op.name = "create" /\ args.clazz = TestType
    /\ DOMAIN args.kwargs = {"foo", "bar"}
    /\ args.kwargs["bar"] = PyStr(<<"a">>) /\ args.kwargs["foo"] = PyInteger(123)
    /\ result.kind = "return"
    /\ result.value.attrs["bar"] = PyStr(<<"a">>)
    /\ result.value.attrs["doh"] = PyNone

\* C15: for every field variant, deserializing a mapping without the field's
\* key raises a Serialization error when the field is not optional, and
\* returns an instance whose attribute is null when the field is optional.
C15_MissingVersusOptional ==
    (op.name = "deserialize" /\ DOMAIN args.item = {}) =>
        IF args.optional
        THEN result.kind = "return" /\ result.value.attrs["f"] = PyNone
        ELSE result.kind = "TembaSerializationException"

\* C16: for every field variant serialize(None) and deserialize(None) return
\* None, and neither raises.
C16_NullHandling ==
    (op.name \in {"field_serialize", "field_deserialize"} /\ args.value = PyNone) =>
        result.kind = "return" /\ result.value = PyNone

\* the well-formed non-null values of a variant, and their wire forms
WellFormedValues(kind) ==
    CASE kind = "Simple" -> (Scalars \ {PyNone}) \cup {PyList(<< >>)}
      [] kind = "Boolean" -> {PyBool(TRUE), PyBool(FALSE)}
      [] kind = "Integer" -> {PyInteger(0), PyInteger(1)}
      [] kind = "Datetime" -> Datetimes
      [] kind = "Object" -> SubObjects
      [] kind = "ObjectList" -> ListsOf(SubObjects)
      [] kind = "ObjectDict" -> DictsOf(SubObjects)

WellFormedWire(kind) ==
    CASE kind = "Simple" -> (Scalars \ {PyNone}) \cup {PyList(<< >>)}
      [] kind = "Boolean" -> {PyBool(TRUE), PyBool(FALSE)}
      [] kind = "Integer" -> {PyInteger(0), PyInteger(1)}
      [] kind = "Datetime" -> WireDatetimes
      [] kind = "Object" -> SubItems
      [] kind = "ObjectList" -> ListsOf(SubItems)
      [] kind = "ObjectDict" -> DictsOf(SubItems)

\* deserialize(serialize(x)) = x for a well-formed value x
ValueRoundTrips ==
    (op.name = "value_round_trip" /\ args.value \in WellFormedValues(args.kind)) =>
        result.kind = "return" /\ result.value = args.value

FullForm(raw) ==
    CASE raw = PyStr(<<"2014-01-02">>) ->
             PyStr(<<"2014-01-02", "T", "00:00:00", ".", "000000", "Z">>)
      [] raw \in { PyStr(<<"2014-01-02", "T", "03:04:05">>),
                   PyStr(<<"2014-01-02", "T", "03:04:05", "Z">>),
                   PyStr(<<"2014-01-02", "T", "03:04:05", ".", "000000">>) } ->
             PyStr(<<"2014-01-02", "T", "03:04:05", ".", "000000", "Z">>)
      [] raw \in { PyStr(<<"2014-01-02", "T", "03:04:05", ".", "671", "Z">>),
                   PyStr(<<"2014-01-02", "T", "03:04:05", ".", "671000", "Z">>) } ->
             PyStr(<<"2014-01-02", "T", "03:04:05", ".", "671000", "Z">>)

C18_ExactTypes ==
    op.name = "field_deserialize" =>
        /\ args.kind = "Boolean" =>
              IF args.value \in {PyNone, PyBool(TRUE), PyBool(FALSE)}
              THEN result.kind = "return" /\ result.value = args.value
              ELSE result.kind = "TembaSerializationException"
        /\ args.kind = "Integer" =>
              IF args.value \in {PyNone, PyInteger(0), PyInteger(1)}
              THEN result.kind = "return" /\ result.value = args.value
              ELSE result.kind = "TembaSerializationException"

\* C18, its case: an IntegerField is given a boolean
C18_Witness ==
    /\ op.name = "field_deserialize" /\ args.kind = "Integer"
    /\ args.value = PyBool(TRUE)
    /\ result.kind = "TembaSerializationException"

-----------------------------------------------------------------------------
(* Claims about _build_params, checked under SpecParams *)

\* a value that is no sequence, Typed Object or datetime
Plain(v) == v.t \in {"NoneType", "bool", "int", "float", "str"}

\* the rule of C19 for a plain value: a boolean becomes 1 or 0, any other is
\* passed through
PlainParam(v) ==
    IF v = PyBool(TRUE) THEN PyInteger(1)
    ELSE IF v = PyBool(FALSE) THEN PyInteger(0)
    ELSE v

\* r is what the rule of C19 makes of v, as far as the rule speaks of v
RECURSIVE SerializedAs(_, _)
SerializedAs(v, r) ==
    IF v.t \in {"list", "tuple"}
    THEN /\ r.t = "list"
         /\ Len(r.items) = Len(Elements(v))
         /\ \A i \in 1..Len(r.items) : SerializedAs(Elements(v)[i], r.items[i])
    ELSE Plain(v) => r = PlainParam(v)

\* C19: build_params returns a mapping whose keys are exactly the kwargs whose
\* value is not null (False, 0, the empty list and the empty tuple are kept);
\* a list or tuple becomes a list of the same length and order, each element
\* by the same rule; a boolean becomes 1 or 0; any other plain value is passed
\* through unchanged.
C19_BuildParams ==
    op.name = "build_params" =>
        /\ result.kind = "return"
        /\ DOMAIN result.value = {k \in DOMAIN args.kwargs : args.kwargs[k] # PyNone}
        /\ \A k \in DOMAIN result.value : SerializedAs(args.kwargs[k], result.value[k])

\* C19, its case: False and an empty tuple are kept, as 0 and as an empty list
C19_Witness ==
    /\ op.name = "build_params"
    /\ DOMAIN args.kwargs = {"a", "b"}
    /\ args.kwargs["a"] = PyBool(FALSE) /\ args.kwargs["b"] = PyTuple(<< >>)
    /\ result.kind = "return" /\ DOMAIN result.value = {"a", "b"}
    /\ result.value["a"] = PyInteger(0) /\ result.value["b"] = PyList(<< >>)

\* r is the identifier of v wherever v is, or holds, a Typed Object: the value
\* of the first of uuid, id, key that the object has
RECURSIVE ResolvedAs(_, _)
ResolvedAs(v, r) ==
    IF v.t \in {"list", "tuple"}
    THEN /\ r.t = "list"
         /\ Len(r.items) = Len(Elements(v))
         /\ \A i \in 1..Len(r.items) : ResolvedAs(Elements(v)[i], r.items[i])
    ELSE v.t = "object" =>
            /\ "uuid" \in DOMAIN v.attrs => r = v.attrs["uuid"]
            /\ ("uuid" \notin DOMAIN v.attrs /\ "id" \in DOMAIN v.attrs) => r = v.attrs["id"]
            /\ ({"uuid", "id"} \cap DOMAIN v.attrs = {} /\ "key" \in DOMAIN v.attrs) =>
                  r = v.attrs["key"]

\* C20: in build_params a Typed Object, also inside a list, resolves to the
\* value of the first attribute among uuid, id, key that the object has; an
\* object with only id resolves by id, one with only key by key.
C20_IdentifierResolution ==
    op.name = "build_params" =>
        /\ result.kind = "return"
        /\ \A k \in DOMAIN result.value : ResolvedAs(args.kwargs[k], result.value[k])

\* C20, its case: an object with id and key resolves by id, and in a tuple an
\* object with only key by key and one with all three by uuid
C20_Witness ==
    /\ op.name = "build_params"
    /\ DOMAIN args.kwargs = {"a", "b"}
    /\ args.kwargs["a"] = Ref([id |-> PyInteger(1001), key |-> PyStr(<<"k1">>)])
    /\ args.kwargs["b"] \in ParamValues /\ args.kwargs["b"].t = "tuple"
    /\ result.kind = "return"
    /\ result.value["a"] = PyInteger(1001)
    /\ result.value["b"] = PyList(<<PyStr(<<"k1">>), PyStr(<<"u1">>)>>)

\* the identifying argument of the write call in progress
IdentifierArg == IF op.name = "delete_contact" THEN args.contact ELSE args.label

\* C21: build_id_param returns the mapping built by build_params when that
\* mapping has exactly one key, and raises ValueError when it has zero keys or
\* more than one; so a delete or an update whose identifier argument is null
\* raises ValueError before any HTTP request is issued.
C21_SingleIdentifier ==
    /\ op.name = "build_id_param" =>
          LET params == BaseClient_build_params(args.kwargs) IN
          IF Cardinality(DOMAIN params) = 1
          THEN result.kind = "return" /\ result.value = params
          ELSE result.kind = "ValueError"
    /\ (op.name \in {"delete_contact", "update_label"} /\ IdentifierArg = PyNone) =>
          /\ op.pc = "done"
          /\ result.kind = "ValueError"
          /\ reqs = << >>

\* C21, its case: delete_contact(None) has raised ValueError
C21_Witness ==
    /\ op.name = "delete_contact" /\ op.pc = "done"
    /\ args.contact = PyNone
    /\ result.kind = "ValueError" /\ reqs = << >>

-----------------------------------------------------------------------------
(* Claims about the construction of a client, checked under SpecClient *)

\* a host given as a full URL: it begins with a scheme
IsFullURL(host) == host # << >> /\ host[1] \in {"http://", "https://"}

\* C22: a client constructed with a bare host H has root URL
\* https://H/api/v<N>; a client constructed with a full URL has as root URL
\* that same URL with one trailing slash trimmed and the scheme preserved,
\* nothing appended.
C22_RootURL ==
    op.name \in {"BaseClient", "AbstractTembaClient"} =>
        result.value.root_url =
            IF IsFullURL(args.host)
            THEN IF Last(args.host) = "/" THEN DropLast(args.host) ELSE args.host
            ELSE <<"https://">> \o args.host \o <<"/api/v", Decimal(args.api_version)>>

-----------------------------------------------------------------------------
(* Claims about the message of a Bad Request error, checked under Spec *)

-----------------------------------------------------------------------------
(* Claims about failures and exhaustion of a cursor iterator, checked under
   SpecCursor *)

\* the call of __next__ ended when its HTTP request raised
FetchFailed == op.name = "next" /\ op.pc = "done" /\ reqs # << >> /\ Failure(Last(reqs).resp)

\* C24: if the HTTP request inside __next__ raises (Rate Exceeded after the
\* retries are exhausted included), the iterator's URL and pending resume
\* cursor are as before the call, and the next __next__ call issues a request
\* identical to the failed one: same URL, same params, same resume cursor.
C24_FailedFetchRetryable ==
    [][/\ (op.name = "next" /\ op.pc = "http" /\ FetchFailed') =>
             /\ iter'.url = iter.url
             /\ iter'.resume_cursor = iter.resume_cursor
             /\ heap'[iter'.params] = heap[iter.params]
       /\ (FetchFailed /\ op'.name = "next" /\ calls' = calls + 1) =>
             /\ op'.pc = "http"
             /\ pend'.url = pend.url
             /\ pend'.params = pend.params
             /\ pend'.retry = pend.retry
             /\ iter'.resume_cursor = iter.resume_cursor]_vars

\* C24, its case: in a resumed iteration the first call has raised, and the
\* second call has sent the same request, retried it, and raised Rate Exceeded
\* with the retries exhausted; the resume cursor is still pending
C24_Witness ==
    /\ FetchFailed /\ calls = 2 /\ Resuming /\ ghost.fetched = 0
    /\ pend.retry /\ Len(reqs) = MAX_RETRIES
    /\ result.kind = "TembaRateExceededError"
    /\ \A i \in 1..Len(reqs) :
          /\ reqs[i].url = EndpointURL
          /\ reqs[i].params = DictSet(ghost.params0, "cursor", ghost.cursor0)
    /\ iter.url = EndpointURL /\ iter.resume_cursor = ghost.cursor0

-----------------------------------------------------------------------------
(* Claims about the requests of a page walk, checked under SpecPaging *)

\* C25: in a walk of _get_all the caller's query parameters are sent with the
\* first request only: every later request goes to the next URL returned by
\* the response before it and carries no query parameters of its own.
C25_ParamsOnFirstRequestOnly ==
    op.name = "get_all" =>
        \A i \in 1..Len(reqs) :
            IF i = 1
            THEN reqs[i].url = PageEndpointURL /\ reqs[i].params = ghost.params0
            ELSE reqs[i].url = PageNext(reqs[i - 1]) /\ reqs[i].params = EmptyDict

\* C25, its case: a walk with the params flow=f1 over three pages
C25_Witness ==
    /\ op.name = "get_all" /\ op.pc = "done" /\ Len(reqs) = 3
    /\ ghost.params0 = [flow |-> "f1"]
    /\ reqs[1].params = [flow |-> "f1"]
    /\ reqs[2].url = PageURL2 /\ reqs[2].params = EmptyDict
    /\ reqs[3].url = PageURL3 /\ reqs[3].params = EmptyDict
    /\ result.kind = "return"

\* C26: if __next__ raises a Serialization error while deserializing the
\* results of a fetch, the iterator has not advanced past that fetch: the
\* next __next__ call requests the same page again, not the following one.
C26_FailedBatchNotSkipped ==
    (op.name = "next" /\ op.pc = "done" /\ result.kind = "TembaSerializationException") =>
        /\ iter.url = Last(reqs).url
        /\ heap[iter.params] = Last(reqs).params

\* the call of __next__ signalled the end of the iteration
Exhausted == op.name = "next" /\ op.pc = "done" /\ result.kind = "StopIteration"

\* C27: an exhausted cursor iterator stays exhausted: once __next__ has
\* signalled the end of the iteration, because next was null or because a
\* fetch returned zero results, a later __next__ call on the same iterator
\* signals the end again and issues no HTTP request (so that the iterator is
\* exhausted after it as well, and so for every later call).
C27_ExhaustedStaysExhausted ==
    [][(Exhausted /\ op'.name = "next" /\ calls' = calls + 1) =>
          (Exhausted' /\ reqs' = << >>)]_vars

\* C28: iterating with a resume cursor leaves the query unchanged: whatever
\* was fetched through iterfetches(resume_cursor=C), the params of the query
\* are those the caller built it with, and all() or first() on the query send
\* their first request with these params and no cursor parameter.
C28_QueryUnchanged ==
    /\ heap[query.params] \in ParamChoices
    /\ (op.name \in {"all", "first"} /\ reqs # << >>) =>
          /\ reqs[1].url = EndpointURL
          /\ reqs[1].params \in ParamChoices
          /\ "cursor" \notin DOMAIN reqs[1].params

-----------------------------------------------------------------------------
(* Claims about a pager past its last page, checked under SpecPaging *)

\* a paged call made with a pager whose latest page was the last one
PastLastPage == op.name = "page" /\ ghost.before > 0 /\ ghost.prevNext = None

\* C29: a pager never serves the same page twice: once a call has returned
\* the last page (has_more() is false), a further call with that pager does
\* not request the start page again.
C29_NoPageTwice ==
    PastLastPage =>
        /\ op.pc = "http" => pend.url # PageEndpointURL
        /\ \A i \in 1..Len(reqs) : reqs[i].url # PageEndpointURL

-----------------------------------------------------------------------------
(* Claims about null values in the params, checked under SpecParams *)

\* C30: the mapping returned by build_params never contains a null value,
\* whatever the kwargs: not for a Typed Object that declares uuid but has it
\* unset while id or key is set, not for a Typed Object that declares none of
\* uuid, id, key; and so neither does the single-key mapping that
\* build_id_param accepts.
C30_NoNullParams ==
    (op.name \in {"build_params", "build_id_param"} /\ result.kind = "return") =>
        \A k \in DOMAIN result.value : result.value[k] # PyNone

====
